---- MODULE Spec2Model ----
(***************************************************************************)
(* Model of the affordability engine of ami-affordability-map:             *)
(*   - the bracket interpolator  (src/lib/bracket-math.ts)                 *)
(*   - the rent <-> income threshold derivation at its four call sites     *)
(*   - the region dataset caches of the choropleth route                   *)
(*                                                                         *)
(* Arithmetic.  The code computes in IEEE doubles; the model computes the  *)
(* same expressions exactly, over integers:                                *)
(*   - an income threshold is held in HALF DOLLARS (t2 = 2 * threshold),   *)
(*     so that thresholds such as 34999.5, between one bracket's max and   *)
(*     the next bracket's min, are inputs of the model;                    *)
(*   - a household count that the loop accumulates (householdsAbove, a     *)
(*     fraction of a household once a bracket is interpolated) is held in  *)
(*     units of 1/Unit household, Unit being a common multiple of every    *)
(*     2 * bracketWidth;                                                   *)
(*   - a percentage rounded to one decimal is held in TENTHS of a percent  *)
(*     (406 is 40.6), which is Math.round(x * 1000) before the final / 10. *)
(***************************************************************************)
EXTENDS Integers, Sequences, FiniteSets, TLC

VARIABLES
    \* ---- one call of computeAffordabilityPct and the call before it ----
    pc,                \* "call": arguments bound, body not run; "done": returned
    incomeThreshold,   \* argument, in half dollars
    totalHouseholds,   \* argument
    bracketCounts,     \* argument, sequence of 16 counts
    householdsAbove,   \* the loop's accumulator at loop exit, in 1/Unit households
    pct,               \* the returned value, in tenths of a percent
    prevCall,          \* the previous call on the same histogram: <<threshold, pct>>, or <<>>
    \* ---- rent <-> income conversions (amounts are exact rationals <<n, d>>) ----
    kind,              \* what `amount` is: "rent" (monthly) or "income" (annual)
    origin,            \* the amount the conversions started from
    amount,            \* the current amount
    sites,             \* the lines applied so far, in order
    steps,             \* conversions applied so far
    uniformThreshold,  \* computeMsaPercentile's incomeThreshold argument
    \* ---- /api/choropleth: module-level caches of one server instance ----
    msaDataCache,      \* Map in insertion order: sequence of [code, data]
    geoCache,          \* Map in insertion order: sequence of [code, data]
    msaLoads,          \* history: codes whose income file was read and inserted, in order
    response,          \* the last GET: [status, msa, geo], how each cache answered
    \* ---- computeMsaPercentile: its module-level cache and its last call ----
    msaCache,          \* Map, never iterated: function from cached code to data
    rankCall,          \* arguments of the last call
    rankLoad,          \* how loadMsaData answered: "none", "hit", "loaded", "absent"
    tractThresholds,   \* the threshold each tract was evaluated at, in half dollars
    tractPcts,         \* the local tractPcts, in tenths of a percent
    targetPct,         \* the local targetPct: <<>> for null, else <<pct>>
    rankResult,        \* the outcome: [outcome, percentile, msaTractCount]
    \* ---- ranks of one list of percentages, by the map and by the ranker ----
    allPcts,           \* the list, in tenths of a percent
    sorted,            \* Map.tsx: the sorted copy, <<>> before the map ran
    mapRanks,          \* Map.tsx: per item [belowCount, percentile]
    rankerRanks,       \* msa-percentile.ts: per item [belowCount, percentile]
    \* ---- /api/choropleth: requests the server has accepted and not yet run ----
    inFlight,          \* the counties asked for, as a bag (ascending sequence)
    \* ---- /api/lookup: the rents behind the ranking call ----
    geoZip,            \* geo.zipCode of the searched address; 0 when there is none
    metroFmr,          \* the metro-level rents of HUD's answer, [studio .. 4BR]
    fmrData,           \* fetchFairMarketRents' result: [fmrByBedroom, isSafmr]
    \* ---- the page (Home): its state, its URL and its requests in flight ----
    urlQuery,          \* window.location.search: [address, household, bedrooms]
    initializedFromUrl,\* the ref of the mount effect
    householdSize,     \* useState(4)
    bedrooms,          \* useState(2)
    isLoading,         \* useState(false)
    error,             \* "none" for null, else which message: "http", "thrown"
    rawData,           \* the lookup response held, [id, county]; id 0 for null
    choroplethData,    \* the choropleth response held, [id, county]; id 0 for null
    choroplethLoading, \* useState(false)
    lookups,           \* /api/lookup requests awaiting their response
    chorFetches,       \* /api/choropleth requests awaiting their response
    issued,            \* lookups started so far; a lookup's id is its number
    \* ---- one call of loadMsaData, statement by statement ----
    loader,            \* whose loadMsaData: "route" (choropleth) or "ranker"
    lookPc,            \* "idle", "has", "read", "room", "set", "returned"
    lookCode,          \* the argument cbsaCode
    reads,             \* readFileSync calls made by the current call
    lookResult,        \* what the call returned: [data, how]
    \* ---- one tract on the server and on the page: the interpolators, the AMI table ----
    incomeData,        \* fetchIncomeDistribution's result: [totalHouseholds, brackets]
    incomeLimit,       \* sizeAdjustedAmi = rawData.incomeLimitsBySize[householdSize - 1], dollars
    tableRow,          \* the last amiTable row computed, with the callback's locals
    interpolated       \* one threshold and what each interpolator returned for it

pctVars == <<pc, incomeThreshold, totalHouseholds, bracketCounts,
             householdsAbove, pct, prevCall>>

thrVars == <<kind, origin, amount, sites, steps, uniformThreshold>>

cacheVars == <<msaDataCache, geoCache, msaLoads, response>>

rankVars == <<msaCache, rankCall, rankLoad, tractThresholds, tractPcts,
              targetPct, rankResult>>

listVars == <<allPcts, sorted, mapRanks, rankerRanks>>

reqVars == <<inFlight>>

fmrVars == <<geoZip, metroFmr, fmrData>>

pageVars == <<urlQuery, initializedFromUrl, householdSize, bedrooms, isLoading, error,
              rawData, choroplethData, choroplethLoading, lookups, chorFetches, issued>>

lookVars == <<loader, lookPc, lookCode, reads, lookResult>>

tblVars == <<incomeData, incomeLimit, tableRow, interpolated>>

vars == <<pctVars, thrVars, cacheVars, rankVars, listVars, reqVars, tblVars, lookVars, fmrVars, pageVars>>

----------------------------------------------------------------------------
(* Bounds of the model *)

\* largest count of the spiked bracket in the enumerated histograms
MaxCount == 2
\* totalHouseholds is drawn from 0..MaxTotal and the histogram's own sum
MaxTotal == 3
\* monthly rents are drawn from 0..MaxRent dollars
MaxRent == 1500
\* size-adjusted income limits are drawn from 0, 500, ..., 500 * MaxAmiSteps
MaxAmiSteps == 240
\* regions (CBSA codes) of the backing store are 1..NumRegions
NumRegions == 8
\* a run of the server reads at most MaxLoads income files
MaxLoads == 7
\* the lists of percentages that are ranked both ways have 1..MaxListLen items
MaxListLen == 4
\* at most MaxInFlight choropleth requests wait for their handler at a time
MaxInFlight == 2
\* tracts whose interpolators are run in doubles have 1..MaxHouseholds households
MaxHouseholds == 80
\* a session of the page starts at most MaxLookups lookups
MaxLookups == 3

----------------------------------------------------------------------------
(* src/lib/bracket-math.ts *)

\* `Infinity`, the max of the open-ended top bracket: larger than every
\* threshold of the model, and only ever compared, never computed with.
Infinity == 2147483647

BRACKET_BOUNDS ==
    << <<0, 9999>>,       <<10000, 14999>>,   <<15000, 19999>>,   <<20000, 24999>>,
       <<25000, 29999>>,  <<30000, 34999>>,   <<35000, 39999>>,   <<40000, 44999>>,
       <<45000, 49999>>,  <<50000, 59999>>,   <<60000, 74999>>,   <<75000, 99999>>,
       <<100000, 124999>>, <<125000, 149999>>, <<150000, 199999>>, <<200000, Infinity>> >>

NumBrackets == Len(BRACKET_BOUNDS)

\* One household, in the units householdsAbove is held in: a common multiple
\* of 2 * (max - min + 1) over the fifteen bounded brackets
\* (2 * 5000, 2 * 10000, 2 * 15000, 2 * 25000, 2 * 50000).
Unit == 2 * 150000

\* Mutant: the `min >= incomeThreshold` branch is missing, so a bracket wholly
\* above the threshold is interpolated too.
BracketShare_NoFullBranch(i, threshold2, count) ==
    LET min == BRACKET_BOUNDS[i][1]
        max == BRACKET_BOUNDS[i][2]
        isTopBracket == (max = Infinity)
    IN  IF ~isTopBracket /\ 2 * max >= threshold2
          THEN count * ((2 * max - threshold2 + 2) * (Unit \div (2 * (max - min + 1))))
        ELSE IF isTopBracket
          THEN count * Unit
        ELSE 0

\* Mutant: the interpolated share is the part of the bracket BELOW the
\* threshold, (incomeThreshold - min) / bracketWidth.
BracketShare_PortionBelow(i, threshold2, count) ==
    LET min == BRACKET_BOUNDS[i][1]
        max == BRACKET_BOUNDS[i][2]
        isTopBracket == (max = Infinity)
    IN  IF 2 * min >= threshold2
          THEN count * Unit
        ELSE IF ~isTopBracket /\ 2 * max >= threshold2
          THEN count * ((threshold2 - 2 * min) * (Unit \div (2 * (max - min + 1))))
        ELSE IF isTopBracket /\ 2 * min < threshold2
          THEN count * Unit
        ELSE 0

\* Mutant: the inclusive-width "+ 1" of portionAbove is missing.
BracketShare_NoPlusOne(i, threshold2, count) ==
    LET min == BRACKET_BOUNDS[i][1]
        max == BRACKET_BOUNDS[i][2]
        isTopBracket == (max = Infinity)
    IN  IF 2 * min >= threshold2
          THEN count * Unit
        ELSE IF ~isTopBracket /\ 2 * max >= threshold2
          THEN count * ((2 * max - threshold2) * (Unit \div (2 * (max - min + 1))))
        ELSE IF isTopBracket /\ 2 * min < threshold2
          THEN count * Unit
        ELSE 0

\* Mutant: the third branch is missing, so the top bracket adds nothing once
\* the threshold is above its min.
BracketShare_TopDropped(i, threshold2, count) ==
    LET min == BRACKET_BOUNDS[i][1]
        max == BRACKET_BOUNDS[i][2]
        isTopBracket == (max = Infinity)
    IN  IF 2 * min >= threshold2
          THEN count * Unit
        ELSE IF ~isTopBracket /\ 2 * max >= threshold2
          THEN count * ((2 * max - threshold2 + 2) * (Unit \div (2 * (max - min + 1))))
        ELSE 0

\* Body of the for loop, lines 32-44: what bracket i adds to householdsAbove.
BracketShare(i, threshold2, count) ==
    LET min == BRACKET_BOUNDS[i][1]
        max == BRACKET_BOUNDS[i][2]
        isTopBracket == (max = Infinity)
    IN  IF 2 * min >= threshold2
          THEN count * Unit
        ELSE IF ~isTopBracket /\ 2 * max >= threshold2
          THEN LET bracketWidth2 == 2 * (max - min + 1)
                   \* portionAbove = (max - incomeThreshold + 1) / bracketWidth
                   portionNum == 2 * max - threshold2 + 2
               IN  count * (portionNum * (Unit \div bracketWidth2))
        ELSE IF isTopBracket /\ 2 * min < threshold2
          THEN count * Unit
        ELSE 0

\* The for loop, lines 30-45: householdsAbove after brackets 1..n.
RECURSIVE SumShares(_, _, _)
SumShares(n, threshold2, counts) ==
    IF n = 0 THEN 0
    ELSE SumShares(n - 1, threshold2, counts) + BracketShare(n, threshold2, counts[n])

\* Mutant: the loop starts at the second bracket.
LoopHouseholdsAbove_SkipsFirst(threshold2, counts) ==
    SumShares(Len(counts), threshold2, counts) - BracketShare(1, threshold2, counts[1])

LoopHouseholdsAbove(threshold2, counts) == SumShares(Len(counts), threshold2, counts)

\* Mutant: rounds to a whole percent, Math.round(x * 100) * 10 tenths.
RoundPerMille_WholePercent(above, total) ==
    LET d == (Unit \div 100) * total
    IN  10 * ((2 * above + d) \div (2 * d))

\* Line 47: Math.round((householdsAbove / totalHouseholds) * 1000), the result
\* in tenths of a percent.  Math.round(y) is floor(y + 1/2); with above in
\* 1/Unit households, y = above / ((Unit / 1000) * total).
RoundPerMille(above, total) ==
    LET d == (Unit \div 1000) * total
    IN  (2 * above + d) \div (2 * d)

\* Mutant: no early return for an empty tract; the division is guarded as
\* householdsAbove / (totalHouseholds || 1) instead.
computeAffordabilityPct_NoZeroReturn(threshold2, total, counts) ==
    RoundPerMille(LoopHouseholdsAbove(threshold2, counts), IF total = 0 THEN 1 ELSE total)

computeAffordabilityPct(threshold2, total, counts) ==
    IF total = 0 THEN 0
    ELSE RoundPerMille(LoopHouseholdsAbove(threshold2, counts), total)

----------------------------------------------------------------------------
(* Inputs of the interpolator *)

RECURSIVE SumCounts(_, _)
SumCounts(counts, n) == IF n = 0 THEN 0 ELSE SumCounts(counts, n - 1) + counts[n]

Sum(counts) == SumCounts(counts, Len(counts))

\* Histograms: a flat base (0 or 1 per bracket) with one bracket set to
\* 0..MaxCount, and the flat histogram of 10 per bracket.
Histograms ==
    { [i \in 1..NumBrackets |-> IF i = a THEN x ELSE z] :
          a \in 1..NumBrackets, x \in 0..MaxCount, z \in 0..1 }
    \cup { [i \in 1..NumBrackets |-> 10] }

\* Thresholds, in half dollars: below zero; for every bounded bracket its
\* min, its midpoint, its max and the half dollar between its max and the
\* next min; the top bracket's min, and two thresholds above it.
Thresholds ==
    { -2 }
    \cup UNION { { 2 * BRACKET_BOUNDS[i][1],
                   BRACKET_BOUNDS[i][1] + BRACKET_BOUNDS[i][2] + 1,
                   2 * BRACKET_BOUNDS[i][2],
                   2 * BRACKET_BOUNDS[i][2] + 1 } : i \in 1..(NumBrackets - 1) }
    \cup { 2 * 200000, 2 * 200000 + 1, 2 * 250000 }

Totals(counts) == (0..MaxTotal) \cup { Sum(counts) }

----------------------------------------------------------------------------
(* Specification of the interpolator: one call, then a second call on the   *)
(* same histogram with another threshold.                                   *)

PctInit ==
    /\ pc = "call"
    /\ bracketCounts \in Histograms
    /\ totalHouseholds \in Totals(bracketCounts)
    /\ incomeThreshold \in Thresholds
    /\ householdsAbove = 0      \* line 30; meaningful once pc = "done"
    /\ pct = 0                  \* meaningful once pc = "done"
    /\ prevCall = <<>>

\* computeAffordabilityPct(incomeThreshold, totalHouseholds, bracketCounts)
Compute ==
    /\ pc = "call"
    /\ pc' = "done"
    /\ householdsAbove' = IF totalHouseholds = 0 THEN 0
                          ELSE LoopHouseholdsAbove(incomeThreshold, bracketCounts)
    /\ pct' = computeAffordabilityPct(incomeThreshold, totalHouseholds, bracketCounts)
    /\ UNCHANGED <<incomeThreshold, totalHouseholds, bracketCounts, prevCall>>
    /\ UNCHANGED <<thrVars, cacheVars, rankVars, listVars, reqVars, tblVars, lookVars, fmrVars, pageVars>>

\* A second call with the same histogram and total and a higher threshold.
Recompute(t) ==
    /\ pc = "done"
    /\ prevCall = <<>>
    /\ t > incomeThreshold
    /\ prevCall' = <<incomeThreshold, pct>>
    /\ incomeThreshold' = t
    /\ householdsAbove' = IF totalHouseholds = 0 THEN 0
                          ELSE LoopHouseholdsAbove(t, bracketCounts)
    /\ pct' = computeAffordabilityPct(t, totalHouseholds, bracketCounts)
    /\ UNCHANGED <<pc, totalHouseholds, bracketCounts>>
    /\ UNCHANGED <<thrVars, cacheVars, rankVars, listVars, reqVars, tblVars, lookVars, fmrVars, pageVars>>

PctNext ==
    \/ Compute
    \/ \E t \in Thresholds : Recompute(t)


----------------------------------------------------------------------------
(* Exact rationals <<numerator, denominator>>, kept in lowest terms *)

RECURSIVE GCD(_, _)
GCD(a, b) == IF b = 0 THEN a ELSE GCD(b, a % b)

RatNorm(q) ==
    LET g == GCD(q[1], q[2])
    IN  IF g = 0 THEN <<0, 1>> ELSE <<q[1] \div g, q[2] \div g>>

Rat(n) == <<n, 1>>
RatMul(a, b) == RatNorm(<<a[1] * b[1], a[2] * b[2]>>)
RatDiv(a, b) == RatNorm(<<a[1] * b[2], a[2] * b[1]>>)
RatEq(a, b) == a[1] * b[2] = b[1] * a[2]

----------------------------------------------------------------------------
(* Threshold derivation: the lines that turn a rent into an income          *)
(* threshold, and the one that turns an income into a rent                  *)

\* the literal 0.3 (0.30) of the rent-to-income ratio
RentRatio == <<3, 10>>

\* Mutant: the 40% feasibility ratio in place of 0.3.
lookupDefaultIncomeNeeded_Ratio40(defaultFmr) ==
    RatDiv(RatMul(defaultFmr, Rat(12)), <<4, 10>>)

\* src/app/api/lookup/route.ts:38   defaultIncomeNeeded = (defaultFmr * 12) / 0.3
lookupDefaultIncomeNeeded(defaultFmr) ==
    RatDiv(RatMul(defaultFmr, Rat(12)), RentRatio)

\* src/lib/msa-percentile.ts:85-97  the per-tract threshold of a tract whose
\* ZIP has rent localFmr: the uniform threshold unless localFmr is truthy
rankerThreshold(localFmr, incomeThresholdArg) ==
    IF localFmr[1] # 0
      THEN RatDiv(RatMul(localFmr, Rat(12)), RentRatio)
      ELSE incomeThresholdArg

\* src/components/Map.tsx:244       threshold = (fmr * 12) / 0.3
mapThreshold(fmr) ==
    RatDiv(RatMul(fmr, Rat(12)), RentRatio)

\* src/unnamed/part_003:85 (page.tsx, recalculate)  incomeNeeded = (fmr * 12) / 0.3
recalcIncomeNeeded(fmr) ==
    RatDiv(RatMul(fmr, Rat(12)), RentRatio)

\* Mutant: divides by the ratio instead of multiplying by it.
amiRowRent_DividesByRatio(income) ==
    RatDiv(RatDiv(income, <<30, 100>>), Rat(12))

\* src/unnamed/part_003:119 (recalculate, amiTable row)  rent = income * 0.30 / 12
amiRowRent(income) ==
    RatDiv(RatMul(income, <<30, 100>>), Rat(12))

AMI_PERCENTS == <<30, 40, 50, 60, 70, 80, 90, 100, 110, 120, 130, 140, 150>>

\* src/unnamed/part_003:118  income = sizeAdjustedAmi * pct / 100
amiRowIncome(sizeAdjustedAmi, amiPct) ==
    RatDiv(RatMul(Rat(sizeAdjustedAmi), Rat(amiPct)), Rat(100))

Rents == { Rat(r) : r \in 0..MaxRent }

AmiLimits == { 500 * k : k \in 0..MaxAmiSteps }

RowIncomes ==
    { amiRowIncome(a, AMI_PERCENTS[j]) : a \in AmiLimits, j \in 1..Len(AMI_PERCENTS) }

UniformThresholds == { Rat(48000), Rat(60000) }

ThrInit ==
    /\ \/ kind = "rent" /\ origin \in Rents
       \/ kind = "income" /\ origin \in RowIncomes
    /\ amount = origin
    /\ sites = <<>>
    /\ steps = 0
    /\ uniformThreshold \in UniformThresholds

\* A conversion is followed by at most one conversion back.
CanConvert(k) == kind = k /\ steps < 2

\* GET /api/lookup, step 3: the default threshold from the 2BR rent
LookupDefault ==
    /\ CanConvert("rent")
    /\ amount' = lookupDefaultIncomeNeeded(amount)
    /\ sites' = Append(sites, "lookup")
    /\ kind' = "income"
    /\ steps' = steps + 1
    /\ UNCHANGED <<origin, uniformThreshold>>
    /\ UNCHANGED <<pctVars, cacheVars, rankVars, listVars, reqVars, tblVars, lookVars, fmrVars, pageVars>>

\* computeMsaPercentile, the threshold of one tract with a ZIP-level rent
RankerTract ==
    /\ CanConvert("rent")
    /\ amount' = rankerThreshold(amount, uniformThreshold)
    /\ sites' = Append(sites, "ranker")
    /\ kind' = "income"
    /\ steps' = steps + 1
    /\ UNCHANGED <<origin, uniformThreshold>>
    /\ UNCHANGED <<pctVars, cacheVars, rankVars, listVars, reqVars, tblVars, lookVars, fmrVars, pageVars>>

\* Map.tsx, the threshold of one tract: `if (!fmr) continue` skips the tract
MapTract ==
    /\ CanConvert("rent")
    /\ amount[1] # 0
    /\ amount' = mapThreshold(amount)
    /\ sites' = Append(sites, "map")
    /\ kind' = "income"
    /\ steps' = steps + 1
    /\ UNCHANGED <<origin, uniformThreshold>>
    /\ UNCHANGED <<pctVars, cacheVars, rankVars, listVars, reqVars, tblVars, lookVars, fmrVars, pageVars>>

\* page.tsx recalculate: incomeNeeded from the selected bedroom's rent
RecalcIncome ==
    /\ CanConvert("rent")
    /\ amount' = recalcIncomeNeeded(amount)
    /\ sites' = Append(sites, "page")
    /\ kind' = "income"
    /\ steps' = steps + 1
    /\ UNCHANGED <<origin, uniformThreshold>>
    /\ UNCHANGED <<pctVars, cacheVars, rankVars, listVars, reqVars, tblVars, lookVars, fmrVars, pageVars>>

\* page.tsx recalculate: the rent of an AMI table row from its income
AmiRow ==
    /\ CanConvert("income")
    /\ amount' = amiRowRent(amount)
    /\ sites' = Append(sites, "amiRow")
    /\ kind' = "rent"
    /\ steps' = steps + 1
    /\ UNCHANGED <<origin, uniformThreshold>>
    /\ UNCHANGED <<pctVars, cacheVars, rankVars, listVars, reqVars, tblVars, lookVars, fmrVars, pageVars>>

ThrNext ==
    \/ LookupDefault
    \/ RankerTract
    \/ MapTract
    \/ RecalcIncome
    \/ AmiRow

----------------------------------------------------------------------------
(* src/app/api/choropleth/route.ts: the region dataset caches               *)

MSA_DATA_MAX == 5
GEO_CACHE_MAX == 5

Regions == 1..NumRegions

\* Backing store, data/msa/<code>.json: the last region has no income file.
\* A file's content is named by its region; Tracts(data) is the tract list
\* it parses to.  One more region, outside the regions that requests of the
\* choropleth route ask for, has a file holding an empty tract list.
EmptyRegion == NumRegions + 2
MsaFileExists(code) == code # NumRegions
MsaFile(code) == <<"tracts", code>>

\* Backing store, data/msa-geo/<code>.json: the region before the last has
\* an income file and no geometry file.
GeoFileExists(code) == code # NumRegions - 1
GeoFile(code) == <<"topology", code>>

\* data/county-to-cbsa.json: county c lies in region c; one more county
\* lies in no metropolitan area.
Counties == 1..(NumRegions + 1)
countyToCbsa(county) ==
    IF county \in Regions \/ county = EmptyRegion THEN county ELSE 0

\* what a load returns for a dataset that is not there
Null == <<"null">>

\* A histogram with households in six of the sixteen brackets.
Brackets(b1, b9, b10, b11, b12, b16) ==
    <<b1, 0, 0, 0, 0, 0, 0, 0, b9, b10, b11, b12, 0, 0, 0, b16>>

\* One row of an income file, [GEOID, totalHouseholds, ...16 counts]; a GEOID
\* is state+county+tract, here the county and the tract's number in it.
Row(county, tract, total, counts) ==
    [fips |-> <<county, tract>>, total |-> total, brackets |-> counts]

\* The tract lists of the store.  EmptyRegion holds an empty list; the
\* others hold one of four lists, by their code.  At the
\* threshold 60000 the first list's percentages are 10, 20, 20, 55, 90; the
\* second list has a tract without households and one where nobody is above;
\* the third has three tracts, the fourth a single one.
TractRows(code) ==
    IF code = EmptyRegion THEN <<>>
    ELSE CASE code % 5 = 1 ->
                << Row(code, 1, 10, Brackets(9, 0, 0, 1, 0, 0)),
                   Row(code, 2, 10, Brackets(8, 0, 0, 2, 0, 0)),
                   Row(code, 3, 10, Brackets(3, 5, 0, 0, 0, 2)),
                   Row(code, 4, 20, Brackets(9, 0, 0, 0, 11, 0)),
                   Row(code, 5, 10, Brackets(0, 0, 1, 9, 0, 0)) >>
           [] code % 5 = 2 ->
                << Row(code, 1, 0, Brackets(0, 0, 0, 0, 0, 0)),
                   Row(code, 2, 4, Brackets(4, 0, 0, 0, 0, 0)),
                   Row(code, 3, 4, Brackets(0, 0, 4, 0, 0, 0)),
                   Row(code, 4, 8, Brackets(5, 0, 0, 0, 0, 3)) >>
           [] code % 5 = 3 ->
                << Row(code, 1, 3, Brackets(1, 0, 0, 0, 2, 0)),
                   Row(code, 2, 3, Brackets(2, 1, 0, 0, 0, 0)),
                   Row(code, 3, 3, Brackets(0, 0, 1, 1, 0, 1)) >>
           [] OTHER ->
                << Row(code, 1, 7, Brackets(3, 1, 1, 1, 0, 1)) >>

\* msaData as an array of rows
Tracts(data) == IF data = Null THEN <<>> ELSE TractRows(data[2])

Keys(cache) == { cache[i].code : i \in 1..Len(cache) }

\* Map.get(code)
Get(cache, code) ==
    LET i == CHOOSE j \in 1..Len(cache) : cache[j].code = code
    IN  cache[i].data

\* Map.set(code, data): a new key is appended, an existing key keeps its place
Set(cache, code, data) ==
    IF code \in Keys(cache)
      THEN [i \in 1..Len(cache) |->
               IF cache[i].code = code THEN [code |-> code, data |-> data] ELSE cache[i]]
      ELSE Append(cache, [code |-> code, data |-> data])

\* Map.delete(Map.keys().next().value)
DeleteOldest(cache) == Tail(cache)

\* Mutant: evicts the newest entry, the last key in iteration order.
loadMsaData_EvictsNewest(cache, cbsaCode) ==
    IF cbsaCode \in Keys(cache)
      THEN [cache |-> cache, data |-> Get(cache, cbsaCode), how |-> "hit"]
    ELSE IF ~MsaFileExists(cbsaCode)
      THEN [cache |-> cache, data |-> Null, how |-> "absent"]
    ELSE LET data == MsaFile(cbsaCode)
             room == IF Len(cache) >= MSA_DATA_MAX
                       THEN SubSeq(cache, 1, Len(cache) - 1) ELSE cache
         IN  [cache |-> Set(room, cbsaCode, data), data |-> data, how |-> "loaded"]

\* Mutant: access order.  A hit moves the entry to the end of the Map
\* (delete, then set), as a least-recently-used cache would.
loadMsaData_TouchOnHit(cache, cbsaCode) ==
    IF cbsaCode \in Keys(cache)
      THEN [cache |-> Append(SelectSeq(cache, LAMBDA e : e.code # cbsaCode),
                             [code |-> cbsaCode, data |-> Get(cache, cbsaCode)]),
            data |-> Get(cache, cbsaCode), how |-> "hit"]
    ELSE IF ~MsaFileExists(cbsaCode)
      THEN [cache |-> cache, data |-> Null, how |-> "absent"]
    ELSE LET data == MsaFile(cbsaCode)
             room == IF Len(cache) >= MSA_DATA_MAX THEN DeleteOldest(cache) ELSE cache
         IN  [cache |-> Set(room, cbsaCode, data), data |-> data, how |-> "loaded"]

\* Mutant: room is made before the file is read, so a failed read has
\* already evicted the oldest entry of a full cache.
loadMsaData_EvictsBeforeRead(cache, cbsaCode) ==
    IF cbsaCode \in Keys(cache)
      THEN [cache |-> cache, data |-> Get(cache, cbsaCode), how |-> "hit"]
    ELSE LET room == IF Len(cache) >= MSA_DATA_MAX THEN DeleteOldest(cache) ELSE cache
         IN  IF ~MsaFileExists(cbsaCode)
               THEN [cache |-> room, data |-> Null, how |-> "absent"]
               ELSE [cache |-> Set(room, cbsaCode, MsaFile(cbsaCode)),
                     data |-> MsaFile(cbsaCode), how |-> "loaded"]

\* Mutant: `>` where the code has `>=`: room is made only once the cache
\* already holds more than MSA_DATA_MAX entries.
loadMsaData_EvictsWhenOver(cache, cbsaCode) ==
    IF cbsaCode \in Keys(cache)
      THEN [cache |-> cache, data |-> Get(cache, cbsaCode), how |-> "hit"]
    ELSE IF ~MsaFileExists(cbsaCode)
      THEN [cache |-> cache, data |-> Null, how |-> "absent"]
    ELSE LET data == MsaFile(cbsaCode)
             room == IF Len(cache) > MSA_DATA_MAX THEN DeleteOldest(cache) ELSE cache
         IN  [cache |-> Set(room, cbsaCode, data), data |-> data, how |-> "loaded"]

\* loadMsaData, lines 44-58: the cache after the call, the value returned
\* and how it was obtained ("hit", "loaded" from the file, or "absent").
loadMsaData(cache, cbsaCode) ==
    IF cbsaCode \in Keys(cache)
      THEN [cache |-> cache, data |-> Get(cache, cbsaCode), how |-> "hit"]
    ELSE IF ~MsaFileExists(cbsaCode)      \* readFileSync throws; catch returns null
      THEN [cache |-> cache, data |-> Null, how |-> "absent"]
    ELSE LET data == MsaFile(cbsaCode)
             room == IF Len(cache) >= MSA_DATA_MAX THEN DeleteOldest(cache) ELSE cache
         IN  [cache |-> Set(room, cbsaCode, data), data |-> data, how |-> "loaded"]

\* loadGeoData, lines 60-75
loadGeoData(cache, cbsaCode) ==
    IF cbsaCode \in Keys(cache)
      THEN [cache |-> cache, data |-> Get(cache, cbsaCode), how |-> "hit"]
    ELSE IF ~GeoFileExists(cbsaCode)      \* existsSync is false
      THEN [cache |-> cache, data |-> Null, how |-> "absent"]
    ELSE LET data == GeoFile(cbsaCode)
             room == IF Len(cache) >= GEO_CACHE_MAX THEN DeleteOldest(cache) ELSE cache
         IN  [cache |-> Set(room, cbsaCode, data), data |-> data, how |-> "loaded"]

CacheInit ==
    /\ msaDataCache = <<>>
    /\ geoCache = <<>>
    /\ msaLoads = <<>>
    /\ response = [status |-> 0, msa |-> "none", geo |-> "none"]

Logged(how, code) == IF how = "loaded" THEN Append(msaLoads, code) ELSE msaLoads

\* GET, lines 81-86: a parameter is missing
GetBadRequest ==
    /\ Len(msaLoads) < MaxLoads
    /\ response' = [status |-> 400, msa |-> "none", geo |-> "none"]
    /\ UNCHANGED <<msaDataCache, geoCache, msaLoads>>
    /\ UNCHANGED <<pctVars, thrVars, rankVars, listVars, reqVars, tblVars, lookVars, fmrVars, pageVars>>

\* GET, lines 90-98: the county is in no metropolitan area
GetNoCbsa(county) ==
    /\ Len(msaLoads) < MaxLoads
    /\ countyToCbsa(county) = 0
    /\ response' = [status |-> 404, msa |-> "none", geo |-> "none"]
    /\ UNCHANGED <<msaDataCache, geoCache, msaLoads>>
    /\ UNCHANGED <<pctVars, thrVars, rankVars, listVars, reqVars, tblVars, lookVars, fmrVars, pageVars>>

\* GET, lines 102-107, after loadMsaData returned msa for the region code
NoIncomeData(code, msa) ==
    /\ Len(msaLoads) < MaxLoads
    /\ code # 0
    /\ (IF msa.data = Null THEN TRUE ELSE Len(Tracts(msa.data)) = 0)
    /\ msaDataCache' = msa.cache
    /\ msaLoads' = Logged(msa.how, code)
    /\ response' = [status |-> 404, msa |-> msa.how, geo |-> "none"]
    /\ UNCHANGED geoCache
    /\ UNCHANGED <<pctVars, thrVars, rankVars, listVars, reqVars, tblVars, lookVars, fmrVars, pageVars>>

\* GET, lines 101-107: the income dataset is absent or an empty list
\* (Counties holds no county of the region with an empty list)
GetNoIncomeData(county) ==
    NoIncomeData(countyToCbsa(county),
                 loadMsaData(msaDataCache, countyToCbsa(county)))

\* GET, lines 102-139, after loadMsaData returned msa and loadGeoData geo
Ok(code, msa, geo) ==
    /\ Len(msaLoads) < MaxLoads
    /\ code # 0
    /\ msa.data # Null
    /\ Len(Tracts(msa.data)) # 0
    /\ msaDataCache' = msa.cache
    /\ msaLoads' = Logged(msa.how, code)
    /\ geoCache' = geo.cache
    /\ response' = [status |-> 200, msa |-> msa.how, geo |-> geo.how]
    /\ UNCHANGED <<pctVars, thrVars, rankVars, listVars, reqVars, tblVars, lookVars, fmrVars, pageVars>>

\* Mutant: one eviction for both caches.  When the income cache drops its
\* oldest region, the region's geometry is dropped with it.
GetOk_SharedEviction(county) ==
    LET code == countyToCbsa(county)
        msa == loadMsaData(msaDataCache, code)
        kept == SelectSeq(geoCache, LAMBDA e : e.code \in Keys(msa.cache) \cup {code})
        geo == loadGeoData(kept, code)
    IN  /\ Len(msaLoads) < MaxLoads
        /\ code # 0
        /\ msa.data # Null
        /\ Len(Tracts(msa.data)) # 0
        /\ msaDataCache' = msa.cache
        /\ msaLoads' = Logged(msa.how, code)
        /\ geoCache' = geo.cache
        /\ response' = [status |-> 200, msa |-> msa.how, geo |-> geo.how]
        /\ UNCHANGED <<pctVars, thrVars, rankVars, listVars, reqVars, tblVars, lookVars, fmrVars, pageVars>>

\* GET, lines 101-139: income dataset found, geometry loaded when it exists
GetOk(county) ==
    Ok(countyToCbsa(county),
       loadMsaData(msaDataCache, countyToCbsa(county)),
       loadGeoData(geoCache, countyToCbsa(county)))

CacheNext ==
    \/ GetBadRequest
    \/ \E county \in Counties : GetNoCbsa(county)
    \/ \E county \in Counties : GetNoIncomeData(county)
    \/ \E county \in Counties : GetOk(county)

----------------------------------------------------------------------------
(* src/app/api/choropleth/route.ts under concurrent requests.  GET is an    *)
(* async function without an await, and loadMsaData / loadGeoData read      *)
(* their files with readFileSync: once the event loop starts a handler it   *)
(* runs to its return before another handler starts.  Requests that are     *)
(* open at the same time are therefore handled one whole handler at a time, *)
(* in an order the server does not choose.                                  *)

\* Counties asked for by concurrent requests: K + 1 regions that have both
\* files, and the region without an income file.
ConcurrentCounties == (1..(MSA_DATA_MAX + 1)) \cup {NumRegions}

\* the bag with one more request for `county`
RECURSIVE AddRequest(_, _)
AddRequest(bag, county) ==
    IF bag = <<>> THEN <<county>>
    ELSE IF county <= Head(bag) THEN <<county>> \o bag
    ELSE <<Head(bag)>> \o AddRequest(Tail(bag), county)

\* the bag without its i-th request
TakeRequest(bag, i) == SubSeq(bag, 1, i - 1) \o SubSeq(bag, i + 1, Len(bag))

ConcurrentInit ==
    /\ CacheInit
    /\ inFlight = <<>>

\* A client sends a request while others are open.
Arrive(county) ==
    /\ Len(inFlight) < MaxInFlight
    /\ inFlight' = AddRequest(inFlight, county)
    /\ UNCHANGED cacheVars
    /\ UNCHANGED <<pctVars, thrVars, rankVars, listVars, tblVars, lookVars, fmrVars, pageVars>>

\* GET, lines 101-107, run for the i-th open request (the load log of the
\* sequential specification is not kept here)
ServedNoIncomeData(i, code, msa) ==
    /\ code # 0
    /\ (IF msa.data = Null THEN TRUE ELSE Len(Tracts(msa.data)) = 0)
    /\ msaDataCache' = msa.cache
    /\ response' = [status |-> 404, msa |-> msa.how, geo |-> "none"]
    /\ inFlight' = TakeRequest(inFlight, i)
    /\ UNCHANGED <<geoCache, msaLoads>>
    /\ UNCHANGED <<pctVars, thrVars, rankVars, listVars, tblVars, lookVars, fmrVars, pageVars>>

ServeNoIncomeData(i) ==
    ServedNoIncomeData(i, countyToCbsa(inFlight[i]),
                       loadMsaData(msaDataCache, countyToCbsa(inFlight[i])))

\* GET, lines 101-139, run for the i-th open request
ServedOk(i, code, msa, geo) ==
    /\ code # 0
    /\ msa.data # Null
    /\ Len(Tracts(msa.data)) # 0
    /\ msaDataCache' = msa.cache
    /\ geoCache' = geo.cache
    /\ response' = [status |-> 200, msa |-> msa.how, geo |-> geo.how]
    /\ inFlight' = TakeRequest(inFlight, i)
    /\ UNCHANGED msaLoads
    /\ UNCHANGED <<pctVars, thrVars, rankVars, listVars, tblVars, lookVars, fmrVars, pageVars>>

ServeOk(i) ==
    ServedOk(i, countyToCbsa(inFlight[i]),
             loadMsaData(msaDataCache, countyToCbsa(inFlight[i])),
             loadGeoData(geoCache, countyToCbsa(inFlight[i])))

ConcurrentNext ==
    \/ \E county \in ConcurrentCounties : Arrive(county)
    \/ \E i \in 1..Len(inFlight) : ServeNoIncomeData(i)
    \/ \E i \in 1..Len(inFlight) : ServeOk(i)

----------------------------------------------------------------------------
(* src/lib/msa-percentile.ts: computeMsaPercentile and its cache            *)

\* data/tract-to-zip.json: the representative ZIP of a tract, by the tract's
\* number; 0 stands for a tract without an entry.
zipMapping(fips) ==
    CASE fips[2] = 1 -> 1
      [] fips[2] = 2 -> 2
      [] fips[2] = 3 -> 3
      [] fips[2] = 5 -> 1
      [] OTHER -> 0

\* data/safmr-by-zip.json: rents [studio, 1BR, 2BR, 3BR, 4BR] by ZIP.  ZIP 3
\* has no entry; the 3BR rent of ZIP 2 is 0.
safmrByZip ==
    [zip \in {1, 2} |-> IF zip = 1 THEN <<900, 1000, 1100, 1400, 1700>>
                                   ELSE <<1000, 1200, 1600, 0, 2000>>]

\* an exact amount that is a whole number of half dollars, in half dollars
HalfDollars(q) == (2 * q[1]) \div q[2]

\* Mutant: a hit answers with the entry cached first, whatever was asked:
\* the value returned depends on the calls made before.
rankerLoadMsaData_HitReturnsFirst(cache, cbsaCode) ==
    IF cbsaCode \in DOMAIN cache
      THEN [cache |-> cache,
            data |-> cache[CHOOSE c \in DOMAIN cache : \A d \in DOMAIN cache : c <= d],
            how |-> "hit"]
    ELSE IF ~MsaFileExists(cbsaCode)
      THEN [cache |-> cache, data |-> Null, how |-> "absent"]
    ELSE LET data == MsaFile(cbsaCode)
         IN  [cache |-> [c \in DOMAIN cache \cup {cbsaCode} |->
                            IF c = cbsaCode THEN data ELSE cache[c]],
              data |-> data, how |-> "loaded"]

\* loadMsaData, lines 29-39: no size test and no delete before the set
rankerLoadMsaData(cache, cbsaCode) ==
    IF cbsaCode \in DOMAIN cache
      THEN [cache |-> cache, data |-> cache[cbsaCode], how |-> "hit"]
    ELSE IF ~MsaFileExists(cbsaCode)      \* readFileSync throws; catch returns null
      THEN [cache |-> cache, data |-> Null, how |-> "absent"]
    ELSE LET data == MsaFile(cbsaCode)
         IN  [cache |-> [c \in DOMAIN cache \cup {cbsaCode} |->
                            IF c = cbsaCode THEN data ELSE cache[c]],
              data |-> data, how |-> "loaded"]

\* Mutant: the ZIP's 2BR rent whatever bedroomIndex is.
tractThreshold_AlwaysTwoBedroom(fips, incomeThreshold2, safmrSupplied, bedroomIndex) ==
    IF ~safmrSupplied THEN incomeThreshold2
    ELSE LET zip == zipMapping(fips)
         IN  IF zip # 0 /\ zip \in DOMAIN safmrByZip
               THEN HalfDollars(rankerThreshold(Rat(safmrByZip[zip][3]),
                                                <<incomeThreshold2, 2>>))
               ELSE incomeThreshold2

\* Lines 85-97: the threshold one tract is evaluated at, in half dollars.
tractThreshold(fips, incomeThreshold2, safmrSupplied, bedroomIndex) ==
    IF ~safmrSupplied THEN incomeThreshold2
    ELSE LET zip == zipMapping(fips)
         IN  IF zip # 0 /\ zip \in DOMAIN safmrByZip
               THEN HalfDollars(rankerThreshold(Rat(safmrByZip[zip][bedroomIndex + 1]),
                                                <<incomeThreshold2, 2>>))
               ELSE incomeThreshold2

\* Mutant: p <= targetPct, so tracts tied with the target (the target too)
\* are counted.
belowCount_CountsTies(pcts, target) ==
    Cardinality({ i \in 1..Len(pcts) : pcts[i] <= target })

\* Line 110: tractPcts.filter((p) => p < targetPct).length
belowCount(pcts, target) == Cardinality({ i \in 1..Len(pcts) : pcts[i] < target })

\* Mutant: rounds to a whole percent, Math.round(x * 100).
percentileOf_WholePercent(below, n) == 10 * ((2 * 100 * below + n) \div (2 * n))

\* Line 111: Math.round((belowCount / tractPcts.length) * 1000), the
\* percentile in tenths of a percent
percentileOf(below, n) == (2 * 1000 * below + n) \div (2 * n)

NoResult(outcome) == [outcome |-> outcome, percentile |-> 0, msaTractCount |-> 0]

\* Mutant: a tract without households is skipped (continue).
PushTract_SkipsEmptyTracts(loop, tract, targetFips, threshold) ==
    IF tract.total = 0 THEN loop
    ELSE [thresholds |-> Append(loop.thresholds, threshold),
          pcts |-> Append(loop.pcts,
                          computeAffordabilityPct(threshold, tract.total, tract.brackets)),
          target |-> IF tract.fips = targetFips
                       THEN <<computeAffordabilityPct(threshold, tract.total, tract.brackets)>>
                       ELSE loop.target]

\* Lines 99-104, one pass of the for loop's tail: push the tract's
\* percentage, and remember it when the tract is the target.
PushTract(loop, tract, targetFips, threshold) ==
    [thresholds |-> Append(loop.thresholds, threshold),
     pcts |-> Append(loop.pcts,
                     computeAffordabilityPct(threshold, tract.total, tract.brackets)),
     target |-> IF tract.fips = targetFips
                  THEN <<computeAffordabilityPct(threshold, tract.total, tract.brackets)>>
                  ELSE loop.target]

\* The for loop, lines 77-105, over the first n tracts: the thresholds used,
\* tractPcts and targetPct.
RECURSIVE LoopTracts(_, _, _, _, _, _)
LoopTracts(msaData, n, targetFips, incomeThreshold2, safmrSupplied, bedroomIndex) ==
    IF n = 0 THEN [thresholds |-> <<>>, pcts |-> <<>>, target |-> <<>>]
    ELSE PushTract(LoopTracts(msaData, n - 1, targetFips, incomeThreshold2,
                              safmrSupplied, bedroomIndex),
                   msaData[n], targetFips,
                   tractThreshold(msaData[n].fips, incomeThreshold2,
                                  safmrSupplied, bedroomIndex))

\* `return null` at line 66 or 69, before the loop: the record carries the
\* cache after the call besides the value returned.
RankNull(cache, how) ==
    [cache |-> cache, how |-> how, thresholds |-> <<>>, pcts |-> <<>>,
     target |-> <<>>, result |-> NoResult("null")]

\* Mutant: no `if (targetPct === null) return null`; the filter then compares
\* with null, which `<` reads as 0, and a result is returned.
RankTarget_NoNullCheck(cache, how, loop) ==
    [cache |-> cache, how |-> how, thresholds |-> loop.thresholds, pcts |-> loop.pcts,
     target |-> loop.target,
     result |-> [outcome |-> "result",
                 percentile |-> percentileOf(belowCount(loop.pcts,
                                                        IF loop.target = <<>> THEN 0
                                                        ELSE loop.target[1]),
                                             Len(loop.pcts)),
                 msaTractCount |-> Len(loop.pcts)]]

\* Mutant: `if (!targetPct) return null`, a falsy test: a target whose
\* percentage is 0 is reported as not found.
RankTarget_FalsyCheck(cache, how, loop) ==
    [cache |-> cache, how |-> how, thresholds |-> loop.thresholds, pcts |-> loop.pcts,
     target |-> loop.target,
     result |-> IF loop.target = <<>> THEN NoResult("null")
                ELSE IF loop.target[1] = 0 THEN NoResult("null")
                ELSE [outcome |-> "result",
                      percentile |-> percentileOf(belowCount(loop.pcts, loop.target[1]),
                                                  Len(loop.pcts)),
                      msaTractCount |-> Len(loop.pcts)]]

\* Lines 107-117: null without a target, else the percentile and the count.
\* The record also carries the cache after the call and the loop's locals.
RankTarget(cache, how, loop) ==
    [cache |-> cache, how |-> how, thresholds |-> loop.thresholds, pcts |-> loop.pcts,
     target |-> loop.target,
     result |-> IF loop.target = <<>> THEN NoResult("null")
                ELSE [outcome |-> "result",
                      percentile |-> percentileOf(belowCount(loop.pcts, loop.target[1]),
                                                  Len(loop.pcts)),
                      msaTractCount |-> Len(loop.pcts)]]

\* Lines 69-117, once loadMsaData has answered.
RankLoaded(msa, targetFips, incomeThreshold2, safmrSupplied, bedroomIndex) ==
    IF Len(Tracts(msa.data)) = 0      \* !msaData || msaData.length === 0
      THEN RankNull(msa.cache, msa.how)
      ELSE RankTarget(msa.cache, msa.how,
                      LoopTracts(Tracts(msa.data), Len(Tracts(msa.data)), targetFips,
                                 incomeThreshold2, safmrSupplied, bedroomIndex))

\* computeMsaPercentile, lines 55-118: the cache after the call, the locals
\* at the return, and what is returned.
computeMsaPercentile(cache, county, tractFips, incomeThreshold2, safmrSupplied, bedroomIndex) ==
    IF countyToCbsa(county) = 0
      THEN RankNull(cache, "none")
      ELSE RankLoaded(rankerLoadMsaData(cache, countyToCbsa(county)), <<county, tractFips>>,
                      incomeThreshold2, safmrSupplied, bedroomIndex)

\* Counties the ranker is asked about: as many regions with tracts as the
\* route's caches hold, the region without a file, the county outside every
\* region, and the region with an empty list.
RankCounties == (1..MSA_DATA_MAX) \cup {NumRegions, NumRegions + 1, EmptyRegion}
RankTracts == 1..6
BedroomIndexes == {2, 3}

\* Before the first call.  The calls of one run are made with the same
\* uniform threshold, rent table and bedroom index, drawn here; without a
\* rent table the bedroom index is the default, 2.
RankInit ==
    /\ msaCache = <<>>
    /\ \E u \in UniformThresholds, safmrSupplied \in BOOLEAN, bedroomIndex \in BedroomIndexes :
          /\ (~safmrSupplied => bedroomIndex = 2)
          /\ rankCall = [county |-> 0, tractFips |-> 0, incomeThreshold |-> HalfDollars(u),
                         safmrSupplied |-> safmrSupplied, bedroomIndex |-> bedroomIndex]
    /\ rankLoad = "none"
    /\ tractThresholds = <<>>
    /\ tractPcts = <<>>
    /\ targetPct = <<>>
    /\ rankResult = NoResult("none")

\* The state after a call that computed r.
RankReturns(r) ==
    /\ msaCache' = r.cache
    /\ rankLoad' = r.how
    /\ tractThresholds' = r.thresholds
    /\ tractPcts' = r.pcts
    /\ targetPct' = r.target
    /\ rankResult' = r.result

\* One call of computeMsaPercentile.
Ranked(county, tractFips, incomeThreshold2, safmrSupplied, bedroomIndex) ==
    /\ rankCall' = [county |-> county, tractFips |-> tractFips,
                    incomeThreshold |-> incomeThreshold2,
                    safmrSupplied |-> safmrSupplied, bedroomIndex |-> bedroomIndex]
    /\ RankReturns(computeMsaPercentile(msaCache, county, tractFips, incomeThreshold2,
                                      safmrSupplied, bedroomIndex))
    /\ UNCHANGED <<pctVars, thrVars, cacheVars, listVars, reqVars, tblVars, lookVars, fmrVars, pageVars>>

HasTract(msaData, fips) == \E i \in 1..Len(msaData) : msaData[i].fips = fips

\* line 66: the county is in no region
RankNoCbsa(county, tractFips) ==
    /\ countyToCbsa(county) = 0
    /\ Ranked(county, tractFips, rankCall.incomeThreshold, rankCall.safmrSupplied,
              rankCall.bedroomIndex)

\* line 69: no dataset, or an empty one
RankNoData(county, tractFips) ==
    /\ countyToCbsa(county) # 0
    /\ Len(Tracts(rankerLoadMsaData(msaCache, countyToCbsa(county)).data)) = 0
    /\ Ranked(county, tractFips, rankCall.incomeThreshold, rankCall.safmrSupplied,
              rankCall.bedroomIndex)

\* line 107: the target is not among the region's tracts
RankNoTarget(county, tractFips) ==
    /\ countyToCbsa(county) # 0
    /\ Len(Tracts(rankerLoadMsaData(msaCache, countyToCbsa(county)).data)) # 0
    /\ ~HasTract(Tracts(rankerLoadMsaData(msaCache, countyToCbsa(county)).data),
                 <<county, tractFips>>)
    /\ Ranked(county, tractFips, rankCall.incomeThreshold, rankCall.safmrSupplied,
              rankCall.bedroomIndex)

\* line 113: the target is ranked
RankOk(county, tractFips) ==
    /\ countyToCbsa(county) # 0
    /\ HasTract(Tracts(rankerLoadMsaData(msaCache, countyToCbsa(county)).data),
                <<county, tractFips>>)
    /\ Ranked(county, tractFips, rankCall.incomeThreshold, rankCall.safmrSupplied,
              rankCall.bedroomIndex)

RankNext ==
    \E county \in RankCounties, tractFips \in RankTracts :
        \/ RankNoCbsa(county, tractFips)
        \/ RankNoData(county, tractFips)
        \/ RankNoTarget(county, tractFips)
        \/ RankOk(county, tractFips)

----------------------------------------------------------------------------
(* Ranks of a list of percentages: src/components/Map.tsx, lines 249-270,   *)
(* and src/lib/msa-percentile.ts, lines 109-111                             *)

\* sort((a, b) => a.pct - b.pct) places x: ascending, after the items that
\* compare equal (the sort is stable)
RECURSIVE InsertSorted(_, _)
InsertSorted(seq, x) ==
    IF seq = <<>> THEN <<x>>
    ELSE IF x < Head(seq) THEN <<x>> \o seq
    ELSE <<Head(seq)>> \o InsertSorted(Tail(seq), x)

\* Line 250: [...allPcts].sort((a, b) => a.pct - b.pct), over the first n items
RECURSIVE SortPcts(_, _)
SortPcts(list, n) ==
    IF n = 0 THEN <<>> ELSE InsertSorted(SortPcts(list, n - 1), list[n])

\* Mutant: `<=` in the comparison, the search for the upper bound: items
\* equal to the target are counted as below it.
RECURSIVE BinarySearch_UpperBound(_, _, _, _)
BinarySearch_UpperBound(sortedPcts, itemPct, lo, hi) ==
    IF lo < hi
      THEN LET mid == (lo + hi) \div 2
           IN  IF sortedPcts[mid + 1] <= itemPct
                 THEN BinarySearch_UpperBound(sortedPcts, itemPct, mid + 1, hi)
                 ELSE BinarySearch_UpperBound(sortedPcts, itemPct, lo, mid)
      ELSE lo

\* Lines 257-262: the while loop from (lo, hi), indexes from 0 as in the
\* code; the value returned is lo at loop exit, the belowCount.
RECURSIVE BinarySearch(_, _, _, _)
BinarySearch(sortedPcts, itemPct, lo, hi) ==
    IF lo < hi
      THEN LET mid == (lo + hi) \div 2      \* (lo + hi) >> 1
           IN  IF sortedPcts[mid + 1] < itemPct
                 THEN BinarySearch(sortedPcts, itemPct, mid + 1, hi)
                 ELSE BinarySearch(sortedPcts, itemPct, lo, mid)
      ELSE lo

\* Line 264: n > 0 ? Math.round((belowCount / n) * 1000) / 10 : 0, in tenths
mapPercentile(below, n) ==
    IF n > 0 THEN (2 * 1000 * below + n) \div (2 * n) ELSE 0

\* Lines 255-270: the metrics of every item, from the sorted copy
mapMetrics(pcts, sortedPcts) ==
    [i \in 1..Len(pcts) |->
        [belowCount |-> BinarySearch(sortedPcts, pcts[i], 0, Len(sortedPcts)),
         percentile |-> mapPercentile(BinarySearch(sortedPcts, pcts[i], 0, Len(sortedPcts)),
                                      Len(sortedPcts))]]

\* msa-percentile.ts lines 110-111 with each item in turn as the target
rankerMetrics(pcts) ==
    [i \in 1..Len(pcts) |->
        [belowCount |-> belowCount(pcts, pcts[i]),
         percentile |-> percentileOf(belowCount(pcts, pcts[i]), Len(pcts))]]

\* percentages the lists are made of, in tenths of a percent
PctValues == {0, 100, 200, 550, 900}

PctLists == UNION { [1..n -> PctValues] : n \in 1..MaxListLen }

ListInit ==
    /\ allPcts \in PctLists
    /\ sorted = <<>>
    /\ mapRanks = <<>>
    /\ rankerRanks = <<>>

\* Map.tsx useMemo: sort, then rank every item by binary search
MapRank ==
    /\ mapRanks = <<>>
    /\ sorted' = SortPcts(allPcts, Len(allPcts))
    /\ mapRanks' = mapMetrics(allPcts, SortPcts(allPcts, Len(allPcts)))
    /\ UNCHANGED <<allPcts, rankerRanks>>
    /\ UNCHANGED <<pctVars, thrVars, cacheVars, rankVars, reqVars, tblVars, lookVars, fmrVars, pageVars>>

\* computeMsaPercentile's ranking of the same list
RankerRank ==
    /\ rankerRanks = <<>>
    /\ rankerRanks' = rankerMetrics(allPcts)
    /\ UNCHANGED <<allPcts, sorted, mapRanks>>
    /\ UNCHANGED <<pctVars, thrVars, cacheVars, rankVars, reqVars, tblVars, lookVars, fmrVars, pageVars>>

ListNext ==
    \/ MapRank
    \/ RankerRank

----------------------------------------------------------------------------
(* The interpolators of one tract: calculateAffordability on the server     *)
(* (src/lib/affordability.ts), interpolatePercentAbove on the page          *)
(* (src/unnamed/part_003), the inline loop of the earlier page              *)
(* (src/app/page.tsx), and the page's AMI table.  The page gets the         *)
(* brackets from the lookup response, that is after JSON.stringify and      *)
(* JSON.parse.  Thresholds are held in QUARTER dollars here: an AMI row's   *)
(* floor, 0.75 * income, is a multiple of 0.25 for limits that are          *)
(* multiples of 50.                                                         *)

\* JSON null, which is what JSON.stringify writes for Infinity
JsonNull == -2147483647
toJson(x) == IF x = Infinity THEN JsonNull ELSE x

\* the number a relational operator compares null as
ToNumber(x) == IF x = JsonNull THEN 0 ELSE x

\* x >= threshold as JavaScript evaluates it, x a bracket bound in dollars
AtLeast(x, threshold4) ==
    IF x = Infinity THEN TRUE ELSE 4 * ToNumber(x) >= threshold4

\* src/lib/bracket-math.ts:140-144 (fetchIncomeDistribution): the brackets of
\* a tract with the given counts
IncomeBrackets(counts) ==
    [i \in 1..NumBrackets |->
        [min |-> BRACKET_BOUNDS[i][1], max |-> BRACKET_BOUNDS[i][2], count |-> counts[i]]]

\* src/app/api/lookup/route.ts:66 and part_003:224: the brackets as the page
\* holds them in rawData
ResponseBrackets(brackets) ==
    [i \in DOMAIN brackets |->
        [min |-> brackets[i].min, max |-> toJson(brackets[i].max),
         count |-> brackets[i].count]]

\* one household, in the units of this section
Unit4 == 4 * 150000

\* (max - incomeThreshold + 1) / bracketWidth of a bounded bracket, times count
Interpolated4(bracket, threshold4) ==
    bracket.count * ((4 * bracket.max - threshold4 + 4)
                       * (Unit4 \div (4 * (bracket.max - bracket.min + 1))))

\* Math.round(x * 1000) for x = above / total, above in 1/Unit4 households
RoundPerMille4(above, total) ==
    (2 * above + (Unit4 \div 1000) * total) \div (2 * ((Unit4 \div 1000) * total))

\* Math.round(num / den), den > 0
MathRound(num, den) == (2 * num + den) \div (2 * den)

\* src/lib/affordability.ts:40-53, the loop body
serverShare(bracket, threshold4) ==
    IF 4 * bracket.min >= threshold4
      THEN bracket.count * Unit4
    ELSE IF AtLeast(bracket.max, threshold4) /\ bracket.max # Infinity
      THEN Interpolated4(bracket, threshold4)
    ELSE IF bracket.max = Infinity /\ 4 * bracket.min < threshold4
      THEN bracket.count * Unit4
    ELSE 0

\* Mutant: the top bracket is recognised by `=== Infinity` alone.
pageShare_InfinityOnly(bracket, threshold4) ==
    IF 4 * bracket.min >= threshold4
      THEN bracket.count * Unit4
    ELSE IF bracket.max # Infinity /\ AtLeast(bracket.max, threshold4)
      THEN Interpolated4(bracket, threshold4)
    ELSE IF bracket.max = Infinity /\ 4 * bracket.min < threshold4
      THEN bracket.count * Unit4
    ELSE 0

\* src/unnamed/part_003:60-70, the loop body of interpolatePercentAbove
pageShare(bracket, threshold4) ==
    IF 4 * bracket.min >= threshold4
      THEN bracket.count * Unit4
    ELSE IF ~(bracket.max = Infinity \/ bracket.max = JsonNull)
              /\ AtLeast(bracket.max, threshold4)
      THEN Interpolated4(bracket, threshold4)
    ELSE IF (bracket.max = Infinity \/ bracket.max = JsonNull)
              /\ 4 * bracket.min < threshold4
      THEN bracket.count * Unit4
    ELSE 0

\* src/app/page.tsx:47-55, the loop body of the earlier page's recalculate
inlineShare(bracket, threshold4) ==
    IF 4 * bracket.min >= threshold4
      THEN bracket.count * Unit4
    ELSE IF AtLeast(bracket.max, threshold4) /\ bracket.max # Infinity
      THEN Interpolated4(bracket, threshold4)
    ELSE IF bracket.max = Infinity /\ 4 * bracket.min < threshold4
      THEN bracket.count * Unit4
    ELSE 0

RECURSIVE serverAbove(_, _, _)
serverAbove(brackets, n, threshold4) ==
    IF n = 0 THEN 0
    ELSE serverAbove(brackets, n - 1, threshold4) + serverShare(brackets[n], threshold4)

RECURSIVE pageAbove(_, _, _)
pageAbove(brackets, n, threshold4) ==
    IF n = 0 THEN 0
    ELSE pageAbove(brackets, n - 1, threshold4) + pageShare(brackets[n], threshold4)

RECURSIVE inlineAbove(_, _, _)
inlineAbove(brackets, n, threshold4) ==
    IF n = 0 THEN 0
    ELSE inlineAbove(brackets, n - 1, threshold4) + inlineShare(brackets[n], threshold4)

\* src/lib/affordability.ts:27-60: percentCanAfford, in tenths of a percent
\* (Math.round(percentCanAfford * 10), percentCanAfford = above / total * 100)
calculateAffordability(threshold4, total, brackets) ==
    IF total = 0 THEN 0
    ELSE RoundPerMille4(serverAbove(brackets, Len(brackets), threshold4), total)

\* src/unnamed/part_003:51-74, in tenths of a percent
interpolatePercentAbove(threshold4, brackets, total) ==
    IF total = 0 THEN 0
    ELSE RoundPerMille4(pageAbove(brackets, Len(brackets), threshold4), total)

\* src/app/page.tsx:45-63: recalculate's percentCanAfford, in tenths of a percent
inlinePercentCanAfford(threshold4, brackets, total) ==
    IF total > 0
      THEN RoundPerMille4(inlineAbove(brackets, Len(brackets), threshold4), total)
      ELSE 0

\* an exact amount of dollars in quarter dollars
Quarters(q) == (4 * q[1]) \div q[2]

\* Mutant: the floor is the income at which the rent is 24% of income.
amiRowFloor_Above(income) == RatMul(income, <<125, 100>>)

\* part_003:120  floor = income * 0.75
amiRowFloor(income) == RatMul(income, <<75, 100>>)

\* part_003:131-137, the row returned, with the locals floor and pctAboveFloor
AmiTableRow(amiPct, income, rent, floor, pctAboveFloor, pctAboveCeiling) ==
    [amiPercent |-> amiPct,
     income |-> MathRound(income[1], income[2]),
     rent |-> MathRound(rent[1], rent[2]),
     percentCanAfford |-> pctAboveCeiling,
     \* Math.round((pctAboveFloor - pctAboveCeiling) * 10), the difference
     \* in percent being a number of tenths over 10
     percentFeasible |-> MathRound((pctAboveFloor - pctAboveCeiling) * 10, 10),
     exactIncome |-> income, exactRent |-> rent, floor |-> floor,
     pctAboveFloor |-> pctAboveFloor]

\* part_003:117-130, the callback of AMI_PERCENTS.map
amiTableRowFrom(amiPct, income, brackets, total) ==
    AmiTableRow(amiPct, income, amiRowRent(income), amiRowFloor(income),
        interpolatePercentAbove(Quarters(amiRowFloor(income)), brackets, total),
        interpolatePercentAbove(Quarters(income), brackets, total))

amiTableRow(limit, amiPct, brackets, total) ==
    amiTableRowFrom(amiPct, amiRowIncome(limit, amiPct), brackets, total)

\* size-adjusted income limits of the table: HUD's limits are multiples of 50
TableLimits == {50, 43250, 160000}

NoRow == [amiPercent |-> 0]
NotInterpolated == [threshold4 |-> 0, server |-> 0, shared |-> 0, page |-> 0,
                    inline |-> 0, ran |-> FALSE]

\* The tracts of this section: no households but for MaxCount or one in a
\* single bracket, over a base of none or one per bracket; and ten in each.
TableHistograms ==
    { [i \in 1..NumBrackets |-> IF i = a THEN x ELSE z] :
          a \in 1..NumBrackets, x \in {1, MaxCount}, z \in 0..1 }
    \cup { [i \in 1..NumBrackets |-> 10] }

TableTotals(counts) == {0, MaxTotal, Sum(counts)}

\* A run looks at one tract, either through one row of the table or through
\* the interpolators at one threshold.
TableInit ==
    /\ \E counts \in TableHistograms :
          \E total \in TableTotals(counts) :
              incomeData = [totalHouseholds |-> total, brackets |-> IncomeBrackets(counts)]
    /\ incomeLimit \in TableLimits
    /\ tableRow = NoRow
    /\ interpolated = NotInterpolated

\* recalculate, part_003:117-138: row j of the AMI table, on the page
TableRow(j) ==
    /\ tableRow = NoRow
    /\ ~interpolated.ran
    /\ tableRow' = amiTableRow(incomeLimit, AMI_PERCENTS[j],
                               ResponseBrackets(incomeData.brackets),
                               incomeData.totalHouseholds)
    /\ UNCHANGED <<incomeData, incomeLimit, interpolated>>
    /\ UNCHANGED <<pctVars, thrVars, cacheVars, rankVars, listVars, reqVars, lookVars, fmrVars, pageVars>>

CountsOf(brackets) == [i \in 1..Len(brackets) |-> brackets[i].count]

\* One threshold given to the server's calculateAffordability, to the shared
\* computeAffordabilityPct, and on the page to interpolatePercentAbove and to
\* the earlier page's inline loop.
Interpolate(threshold2) ==
    /\ tableRow = NoRow
    /\ ~interpolated.ran
    /\ interpolated' =
          [threshold4 |-> 2 * threshold2,
           server |-> calculateAffordability(2 * threshold2, incomeData.totalHouseholds,
                                             incomeData.brackets),
           shared |-> computeAffordabilityPct(threshold2, incomeData.totalHouseholds,
                                              CountsOf(incomeData.brackets)),
           page |-> interpolatePercentAbove(2 * threshold2,
                                            ResponseBrackets(incomeData.brackets),
                                            incomeData.totalHouseholds),
           inline |-> inlinePercentCanAfford(2 * threshold2,
                                             ResponseBrackets(incomeData.brackets),
                                             incomeData.totalHouseholds),
           ran |-> TRUE]
    /\ UNCHANGED <<incomeData, incomeLimit, tableRow>>
    /\ UNCHANGED <<pctVars, thrVars, cacheVars, rankVars, listVars, reqVars, lookVars, fmrVars, pageVars>>

TableNext ==
    \/ \E j \in 1..Len(AMI_PERCENTS) : TableRow(j)
    \/ \E threshold2 \in Thresholds : Interpolate(threshold2)

----------------------------------------------------------------------------
(* src/app/api/lookup/route.ts, lines 31-57: the rents fetched for the      *)
(* searched address and the ranking call made with them                     *)

\* metro-level rents HUD answers with, [studio, 1BR, 2BR, 3BR, 4BR]
MetroFmrs == { <<1000, 1100, 1200, 1500, 1800>>, <<900, 1000, 1300, 1600, 1900>> }

\* geo.zipCode: none, the two ZIPs with SAFMR rents, and a ZIP without
GeoZips == 0..3

\* counties searched: three regions with tracts, the region without a file
\* and the county outside every region
RouteCounties == {1, 2, 3, NumRegions, NumRegions + 1}

\* part_000:73-107, fetchFairMarketRents once HUD has answered: the searched
\* ZIP's SAFMR rents when the static file has them, else the metro's
fetchFairMarketRents(metro, zipCode) ==
    IF zipCode # 0 /\ zipCode \in DOMAIN safmrByZip
      THEN [fmrByBedroom |-> safmrByZip[zipCode], isSafmr |-> TRUE]
      ELSE [fmrByBedroom |-> metro, isSafmr |-> FALSE]

RouteInit ==
    /\ geoZip = 0
    /\ metroFmr \in MetroFmrs
    /\ fmrData = [fmrByBedroom |-> <<0, 0, 0, 0, 0>>, isSafmr |-> FALSE]

\* route.ts:36-57 with fmrData = fmr and defaultIncomeNeeded = needed (half
\* dollars): computeMsaPercentile(state, county, tract, defaultIncomeNeeded,
\* fmrData.isSafmr ? getSafmrData() : undefined), bedroomIndex defaulting to 2
LookupRanked(county, tractFips, zipCode, fmr, needed) ==
    /\ geoZip' = zipCode
    /\ fmrData' = fmr
    /\ rankCall' = [county |-> county, tractFips |-> tractFips,
                    incomeThreshold |-> needed,
                    safmrSupplied |-> fmr.isSafmr, bedroomIndex |-> 2]
    /\ RankReturns(computeMsaPercentile(msaCache, county, tractFips, needed,
                                        fmr.isSafmr, 2))
    /\ UNCHANGED metroFmr
    /\ UNCHANGED <<pctVars, thrVars, cacheVars, listVars, reqVars, tblVars, lookVars, pageVars>>

\* defaultFmr = fmrData.fmrByBedroom[2], line 36, and line 38
LookupNeeded(fmr) == HalfDollars(lookupDefaultIncomeNeeded(Rat(fmr.fmrByBedroom[3])))

\* GET /api/lookup, steps 2 to 4
LookupRanking(county, tractFips, zipCode) ==
    LookupRanked(county, tractFips, zipCode,
                 fetchFairMarketRents(metroFmr, zipCode),
                 LookupNeeded(fetchFairMarketRents(metroFmr, zipCode)))

RouteNext ==
    \E county \in RouteCounties, tractFips \in RankTracts, zipCode \in GeoZips :
        LookupRanking(county, tractFips, zipCode)

----------------------------------------------------------------------------
(* The last line of each interpolator in IEEE 754 doubles.  A positive      *)
(* double is [bits, scale]: bits its 53-bit significand, most significant   *)
(* bit first and 1, and the value is the number bits spell / 2^scale.       *)
(* Quotients and products are rounded to nearest, ties to even, as the      *)
(* JavaScript operators / and * are.  Used where householdsAbove is a whole *)
(* number, so that the quotient's operands are exact.                       *)

Precision == 53

Zero64 == [bits |-> <<>>, scale |-> 0]

\* the binary digits of n > 0, most significant first; none for 0
RECURSIVE ToBits(_)
ToBits(n) == IF n = 0 THEN <<>> ELSE Append(ToBits(n \div 2), n % 2)

\* the number a short bit sequence spells
RECURSIVE FromBits(_)
FromBits(bits) ==
    IF bits = <<>> THEN 0
    ELSE 2 * FromBits(SubSeq(bits, 1, Len(bits) - 1)) + bits[Len(bits)]

\* the k binary digits of v < 2^k, most significant first
Digits(v, k) == [i \in 1..k |-> (v \div 2^(k - i)) % 2]

\* digits handled in one step of a long multiplication or division, so that
\* every intermediate value stays below 2^31
Limb(n) == IF n > 16 THEN 16 ELSE n

\* the place of the last 0 among the digits
LastZero(bits) ==
    CHOOSE k \in 1..Len(bits) :
        bits[k] = 0 /\ \A j \in (k + 1)..Len(bits) : bits[j] = 1

\* the digits with their last 0 turned into 1 and the 1s after it into 0s
Carried(bits, k) ==
    [i \in 1..Len(bits) |-> IF i < k THEN bits[i] ELSE IF i = k THEN 1 ELSE 0]

\* bits + 1; one digit longer when every bit is 1
Increment(bits) ==
    IF \A i \in 1..Len(bits) : bits[i] = 1
    THEN <<1>> \o [i \in 1..Len(bits) |-> 0]
    ELSE Carried(bits, LastZero(bits))

\* a significand after rounding up or not, back to Precision digits
Rounded64(kept, up, scale) ==
    IF ~up THEN [bits |-> kept, scale |-> scale]
    ELSE IF Len(Increment(kept)) > Precision
      THEN [bits |-> SubSeq(Increment(kept), 1, Precision), scale |-> scale - 1]
      ELSE [bits |-> Increment(kept), scale |-> scale]

\* the exact product's digits (Precision or more, the first one 1) rounded
\* to Precision digits, ties to even
RoundProduct(bits, scale) ==
    IF Len(bits) = Precision THEN [bits |-> bits, scale |-> scale]
    ELSE Rounded64(SubSeq(bits, 1, Precision),
                   /\ bits[Precision + 1] = 1
                   /\ \/ bits[Precision] = 1
                      \/ \E i \in (Precision + 2)..Len(bits) : bits[i] = 1,
                   scale - (Len(bits) - Precision))

\* the last k digits times c plus carry
LimbProduct(bits, k, c, carry) ==
    FromBits(SubSeq(bits, Len(bits) - k + 1, Len(bits))) * c + carry

\* digits * c + carry, from the last digits on, a limb at a time
RECURSIVE MulBits(_, _, _)
MulLimb(bits, k, c, product) ==
    MulBits(SubSeq(bits, 1, Len(bits) - k), c, product \div 2^k)
        \o Digits(product % 2^k, k)

MulBits(bits, c, carry) ==
    IF bits = <<>> THEN ToBits(carry)
    ELSE MulLimb(bits, Limb(Len(bits)), c,
                 LimbProduct(bits, Limb(Len(bits)), c, carry))

\* x * c in doubles, c a whole number
Times64(x, c) ==
    IF x.bits = <<>> THEN Zero64 ELSE RoundProduct(MulBits(x.bits, c, 0), x.scale)

\* zeros after the binary point of r / t, for 0 < r < t
RECURSIVE LeadingZeros(_, _)
LeadingZeros(r, t) == IF 2 * r >= t THEN 0 ELSE 1 + LeadingZeros(2 * r, t)

RECURSIVE Shifted(_, _)
Shifted(r, z) == IF z = 0 THEN r ELSE Shifted(2 * r, z - 1)

\* long division: the next n binary digits of r / t and the remainder left
RECURSIVE DivBits(_, _, _)
DivLimb(digits, rest) == [bits |-> digits \o rest.bits, rem |-> rest.rem]

DivBits(r, t, n) ==
    IF n = 0 THEN [bits |-> <<>>, rem |-> r]
    ELSE DivLimb(Digits((r * 2^Limb(n)) \div t, Limb(n)),
                 DivBits((r * 2^Limb(n)) % t, t, n - Limb(n)))

\* the quotient's first Precision digits and remainder, rounded
QuotientOf(d, t, scale) ==
    Rounded64(d.bits,
              \/ 2 * d.rem > t
              \/ 2 * d.rem = t /\ d.bits[Precision] = 1,
              scale)

\* a / t in doubles, for whole numbers 0 <= a <= t, t > 0
Divide64(a, t) ==
    IF a = 0 THEN Zero64
    ELSE IF a = t THEN [bits |-> [i \in 1..Precision |-> IF i = 1 THEN 1 ELSE 0],
                        scale |-> Precision - 1]
    ELSE QuotientOf(DivBits(Shifted(a, LeadingZeros(a, t)), t, Precision), t,
                    LeadingZeros(a, t) + Precision)

\* Math.round(x): the nearest whole number, a half going up
Round64(x) ==
    IF x.bits = <<>> \/ x.scale > Precision THEN 0
    ELSE IF x.scale = Precision THEN 1
    ELSE FromBits(SubSeq(x.bits, 1, Precision - x.scale))
           + x.bits[Precision - x.scale + 1]

\* src/lib/affordability.ts:55 and 60: percentCanAfford = above / total * 100,
\* then Math.round(percentCanAfford * 10)
serverPercent64(above, total) ==
    Round64(Times64(Times64(Divide64(above, total), 100), 10))

\* src/lib/bracket-math.ts:47 and part_003:73: Math.round(above / total * 1000)
sharedPercent64(above, total) ==
    Round64(Times64(Divide64(above, total), 1000))

\* calculateAffordability, affordability.ts:27-60, on a threshold that leaves
\* no bracket to interpolate: percentCanAfford in tenths of a percent
calculateAffordability64(threshold4, total, brackets) ==
    IF total = 0 THEN 0
    ELSE serverPercent64(serverAbove(brackets, Len(brackets), threshold4) \div Unit4, total)

\* computeAffordabilityPct, bracket-math.ts:23-48, likewise
computeAffordabilityPct64(threshold2, total, counts) ==
    IF total = 0 THEN 0
    ELSE sharedPercent64(LoopHouseholdsAbove(threshold2, counts) \div Unit, total)

\* interpolatePercentAbove, part_003:51-74, likewise
interpolatePercentAbove64(threshold4, brackets, total) ==
    IF total = 0 THEN 0
    ELSE sharedPercent64(pageAbove(brackets, Len(brackets), threshold4) \div Unit4, total)

\* the earlier page's recalculate, page.tsx:45-63, likewise
inlinePercentCanAfford64(threshold4, brackets, total) ==
    IF total > 0
      THEN sharedPercent64(inlineAbove(brackets, Len(brackets), threshold4) \div Unit4, total)
      ELSE 0

\* Tracts of this part: households below 10000 and households at 200000 or
\* more, totalHouseholds their sum, as the ACS table has it.
WholeHistogram(below, above) ==
    [i \in 1..NumBrackets |-> IF i = 1 THEN below ELSE IF i = NumBrackets THEN above ELSE 0]

\* Thresholds in dollars at which no bracket of such a tract is cut: the top
\* bracket's min, and a threshold above it.
WholeThresholds == {BRACKET_BOUNDS[NumBrackets][1], BRACKET_BOUNDS[NumBrackets][1] + 50000}

RoundingInit ==
    /\ \E total \in 1..MaxHouseholds :
          \E above \in 0..total :
              incomeData = [totalHouseholds |-> total,
                            brackets |-> IncomeBrackets(WholeHistogram(total - above, above))]
    /\ incomeLimit = 0
    /\ tableRow = NoRow
    /\ interpolated = NotInterpolated

\* One threshold given to the three interpolators and to the earlier page's
\* loop, each computing its last line in doubles.
InterpolateWhole(threshold) ==
    /\ ~interpolated.ran
    /\ serverAbove(incomeData.brackets, NumBrackets, 4 * threshold) % Unit4 = 0
    /\ interpolated' =
          [threshold4 |-> 4 * threshold,
           server |-> calculateAffordability64(4 * threshold, incomeData.totalHouseholds,
                                               incomeData.brackets),
           shared |-> computeAffordabilityPct64(2 * threshold, incomeData.totalHouseholds,
                                                CountsOf(incomeData.brackets)),
           page |-> interpolatePercentAbove64(4 * threshold,
                                              ResponseBrackets(incomeData.brackets),
                                              incomeData.totalHouseholds),
           inline |-> inlinePercentCanAfford64(4 * threshold,
                                               ResponseBrackets(incomeData.brackets),
                                               incomeData.totalHouseholds),
           ran |-> TRUE]
    /\ UNCHANGED <<incomeData, incomeLimit, tableRow>>
    /\ UNCHANGED <<pctVars, thrVars, cacheVars, rankVars, listVars, reqVars, lookVars, fmrVars, pageVars>>

RoundingNext == \E threshold \in WholeThresholds : InterpolateWhole(threshold)

----------------------------------------------------------------------------
(* src/unnamed/part_003, Home: the page's state, the mount effect, the two  *)
(* lookup handlers, fetchChoropleth and the two selects of ResultsPanel.    *)
(* A handler runs to its first await in one step; what follows an await     *)
(* runs in one step when the response arrives.                              *)

\* a query parameter that is not in the URL: params.get returns null
Missing == <<"missing">>

DigitOf == [c \in {"0", "1", "2", "3", "4", "5", "6", "7", "8", "9"} |->
               CASE c = "0" -> 0 [] c = "1" -> 1 [] c = "2" -> 2 [] c = "3" -> 3
                 [] c = "4" -> 4 [] c = "5" -> 5 [] c = "6" -> 6 [] c = "7" -> 7
                 [] c = "8" -> 8 [] OTHER -> 9]

\* parseInt, step 1: leading white space is skipped
RECURSIVE TrimStart(_)
TrimStart(text) ==
    IF text # <<>> /\ text[1] = " " THEN TrimStart(Tail(text)) ELSE text

\* parseInt, the digits: the value of the longest prefix of digits after
\* the value so far; <<>> when there is no digit at all
RECURSIVE DigitsValue(_, _)
DigitsValue(text, sofar) ==
    IF text # <<>> /\ text[1] \in DOMAIN DigitOf
      THEN DigitsValue(Tail(text),
                       <<10 * (IF sofar = <<>> THEN 0 ELSE sofar[1]) + DigitOf[text[1]]>>)
      ELSE sofar

Negated(number) == IF number = <<>> THEN <<>> ELSE <<0 - number[1]>>

\* parseInt, after the white space: an optional sign, then digits
SignedValue(text) ==
    IF text # <<>> /\ text[1] = "-" THEN Negated(DigitsValue(Tail(text), <<>>))
    ELSE IF text # <<>> /\ text[1] = "+" THEN DigitsValue(Tail(text), <<>>)
    ELSE DigitsValue(text, <<>>)

\* parseInt(text, 10): <<n>>, or <<>> for NaN
parseInt(text) == SignedValue(TrimStart(text))

\* params.get(name) || ""
ParamText(value) == IF value = Missing THEN <<>> ELSE value

\* Mutant: no range test, `if (!isNaN(hh)) setHouseholdSize(hh)`.
Restored_AnyNumber(current, parsed, lo, hi) ==
    IF parsed = <<>> THEN current ELSE parsed[1]

\* lines 259-260: `if (hh >= 1 && hh <= 8) setHouseholdSize(hh)`; every
\* comparison with NaN is false
Restored(current, parsed, lo, hi) ==
    IF parsed = <<>> THEN current
    ELSE IF parsed[1] >= lo /\ parsed[1] <= hi THEN parsed[1]
    ELSE current

\* texts a query parameter arrives with
UrlTexts ==
    { Missing, <<>>, <<"0">>, <<"1">>, <<"4">>, <<"5">>, <<"8">>, <<"9">>,
      <<"-", "1">>, <<"1", "0">>, <<"3", "x">>, <<"x", "3">>, <<" ", "2">>,
      <<"2", ".", "5">>, <<"+", "4">>, <<"0", "7">> }

NoQuery == [address |-> FALSE, household |-> Missing, bedrooms |-> Missing]

UrlQueries ==
    { [address |-> TRUE, household |-> h, bedrooms |-> b] : h \in UrlTexts, b \in UrlTexts }
    \cup { NoQuery, [address |-> FALSE, household |-> <<"8">>, bedrooms |-> <<"0">>] }

NoData == [id |-> 0, county |-> 0]

\* places a lookup is made for, by the county they lie in
PagePlaces == {1, 2}

\* src/lib/hud-api.ts:61-65: incomeLimitsBySize has eight entries
incomeLimitsBySize(medianIncome) == [i \in 1..8 |-> medianIncome]

\* lines 160-175: the state of the first render
PageStart ==
    /\ initializedFromUrl = FALSE
    /\ householdSize = 4
    /\ bedrooms = 2
    /\ isLoading = FALSE
    /\ error = "none"
    /\ rawData = NoData
    /\ choroplethData = NoData
    /\ choroplethLoading = FALSE
    /\ lookups = {}
    /\ chorFetches = {}
    /\ issued = 0

\* lines 216-222 and 269-275: setIsLoading(true); setError(null);
\* setRawData(null); fetch(/api/lookup...)
LookupStarts(handler, county) ==
    /\ issued' = issued + 1
    /\ lookups' = lookups \cup {[id |-> issued + 1, by |-> handler, county |-> county]}
    /\ isLoading' = TRUE
    /\ error' = "none"
    /\ rawData' = NoData
    /\ UNCHANGED <<choroplethData, choroplethLoading, chorFetches>>

PageOthers ==
    UNCHANGED <<pctVars, thrVars, cacheVars, rankVars, listVars, reqVars, tblVars,
                lookVars, fmrVars>>

\* lines 249-265, the mount effect without an address in the URL
MountPlain ==
    /\ ~initializedFromUrl
    /\ ~urlQuery.address
    /\ initializedFromUrl' = TRUE
    /\ UNCHANGED <<urlQuery, householdSize, bedrooms, isLoading, error, rawData,
                   choroplethData, choroplethLoading, lookups, chorFetches, issued>>
    /\ PageOthers

\* lines 249-265, the mount effect with an address: the two settings are
\* restored and handleSearch(address) is called
MountSearch(county) ==
    /\ ~initializedFromUrl
    /\ urlQuery.address
    /\ initializedFromUrl' = TRUE
    /\ householdSize' = Restored(householdSize, parseInt(ParamText(urlQuery.household)), 1, 8)
    /\ bedrooms' = Restored(bedrooms, parseInt(ParamText(urlQuery.bedrooms)), 0, 4)
    /\ LookupStarts("search", county)
    /\ UNCHANGED urlQuery
    /\ PageOthers

\* SearchBar's submit, handleSearch lines 215-222; the form is disabled
\* while isLoading
Search(county) ==
    /\ initializedFromUrl
    /\ ~isLoading
    /\ issued < MaxLookups
    /\ LookupStarts("search", county)
    /\ UNCHANGED <<urlQuery, initializedFromUrl, householdSize, bedrooms>>
    /\ PageOthers

\* a click on the map, handleMapClick lines 267-275; the map is never
\* disabled
MapClick(county) ==
    /\ initializedFromUrl
    /\ issued < MaxLookups
    /\ LookupStarts("click", county)
    /\ UNCHANGED <<urlQuery, initializedFromUrl, householdSize, bedrooms>>
    /\ PageOthers

\* lines 223-233 and 276-288, then `finally`: the response is OK;
\* fetchChoropleth runs to its await (lines 184-188)
LookupOk(l) ==
    /\ l \in lookups
    /\ lookups' = lookups \ {l}
    /\ rawData' = [id |-> l.id, county |-> l.county]
    /\ choroplethLoading' = TRUE
    /\ chorFetches' = chorFetches \cup {[id |-> l.id, county |-> l.county]}
    /\ isLoading' = FALSE
    /\ UNCHANGED <<urlQuery, initializedFromUrl, householdSize, bedrooms, error,
                   choroplethData, issued>>
    /\ PageOthers

\* lines 226-229 and 279-282, then `finally`: the response is not OK
LookupHttpError(l) ==
    /\ l \in lookups
    /\ lookups' = lookups \ {l}
    /\ error' = "http"
    /\ isLoading' = FALSE
    /\ UNCHANGED <<urlQuery, initializedFromUrl, householdSize, bedrooms, rawData,
                   choroplethData, choroplethLoading, chorFetches, issued>>
    /\ PageOthers

\* lines 235-239 and 290-294: fetch or res.json() throws; catch, `finally`
LookupThrows(l) ==
    /\ l \in lookups
    /\ lookups' = lookups \ {l}
    /\ error' = "thrown"
    /\ isLoading' = FALSE
    /\ UNCHANGED <<urlQuery, initializedFromUrl, householdSize, bedrooms, rawData,
                   choroplethData, choroplethLoading, chorFetches, issued>>
    /\ PageOthers

\* fetchChoropleth lines 189-192 and 199: the response is OK
ChoroplethOk(f) ==
    /\ f \in chorFetches
    /\ chorFetches' = chorFetches \ {f}
    /\ choroplethData' = f
    /\ choroplethLoading' = FALSE
    /\ UNCHANGED <<urlQuery, initializedFromUrl, householdSize, bedrooms, isLoading, error,
                   rawData, lookups, issued>>
    /\ PageOthers

\* fetchChoropleth lines 193-199: the response is not OK, or fetch throws
ChoroplethFails(f) ==
    /\ f \in chorFetches
    /\ chorFetches' = chorFetches \ {f}
    /\ choroplethData' = NoData
    /\ choroplethLoading' = FALSE
    /\ UNCHANGED <<urlQuery, initializedFromUrl, householdSize, bedrooms, isLoading, error,
                   rawData, lookups, issued>>
    /\ PageOthers

\* ResultsPanel (src/lib/affordability.ts:134-162) renders the selects only
\* when it is not loading, there is no error and there is a result
SelectsShown == ~isLoading /\ error = "none" /\ rawData # NoData

\* affordability.ts:186-197: onChange of the household size select
SelectHouseholdSize(n) ==
    /\ SelectsShown
    /\ householdSize' = n
    /\ UNCHANGED <<urlQuery, initializedFromUrl, bedrooms, isLoading, error, rawData,
                   choroplethData, choroplethLoading, lookups, chorFetches, issued>>
    /\ PageOthers

\* affordability.ts:206-217: onChange of the bedroom select
SelectBedrooms(i) ==
    /\ SelectsShown
    /\ bedrooms' = i
    /\ UNCHANGED <<urlQuery, initializedFromUrl, householdSize, isLoading, error, rawData,
                   choroplethData, choroplethLoading, lookups, chorFetches, issued>>
    /\ PageOthers

\* the responses of the requests in flight
Responses ==
    \/ \E l \in lookups : LookupOk(l)
    \/ \E l \in lookups : LookupHttpError(l)
    \/ \E l \in lookups : LookupThrows(l)
    \/ \E f \in chorFetches : ChoroplethOk(f)
    \/ \E f \in chorFetches : ChoroplethFails(f)

\* a page opened on a URL, its automatic search and the two selects
UrlNext ==
    \/ MountPlain
    \/ \E county \in PagePlaces : MountSearch(county)
    \/ Responses
    \/ \E n \in 1..8 : SelectHouseholdSize(n)
    \/ \E i \in 0..4 : SelectBedrooms(i)

\* a page and its lookups: searches and map clicks
PageNext ==
    \/ MountPlain
    \/ \E county \in PagePlaces : MountSearch(county)
    \/ \E county \in PagePlaces : Search(county)
    \/ \E county \in PagePlaces : MapClick(county)
    \/ Responses

----------------------------------------------------------------------------
(* loadMsaData, one statement at a time: the route's copy                   *)
(* (src/app/api/choropleth/route.ts, lines 44-58) and the ranker's copy     *)
(* (src/lib/msa-percentile.ts, lines 29-39).  The body is synchronous and   *)
(* has no loop; `reads` counts its calls of readFileSync.                   *)

Loaders == {"route", "ranker"}

\* Regions looked up: one more region with a file than the route's cache
\* holds, and the region without a file.
LookupCodes == (1..(MSA_DATA_MAX + 1)) \cup {NumRegions}

NotReturned == [data |-> Null, how |-> "none"]

\* what a call of loadMsaData leaves alone in the two modules
LookupOthers ==
    /\ UNCHANGED <<geoCache, msaLoads, response>>
    /\ UNCHANGED <<rankCall, rankLoad, tractThresholds, tractPcts, targetPct, rankResult>>
    /\ UNCHANGED <<pctVars, thrVars, listVars, reqVars, tblVars, fmrVars, pageVars>>

\* Each behaviour follows one module's loadMsaData from its empty cache.
LookupInit ==
    /\ loader \in Loaders
    /\ lookPc = "idle"
    /\ lookCode = 0
    /\ reads = 0
    /\ lookResult = NotReturned

\* a caller calls loadMsaData(cbsaCode); the previous call has returned
LookupCall(cbsaCode) ==
    /\ lookPc \in {"idle", "returned"}
    /\ lookPc' = "has"
    /\ lookCode' = cbsaCode
    /\ reads' = 0
    /\ lookResult' = NotReturned
    /\ UNCHANGED <<loader, msaDataCache, msaCache>>
    /\ LookupOthers

\* msaDataCache.has(cbsaCode) / msaCache.has(cbsaCode)
LookupCached ==
    IF loader = "route" THEN lookCode \in Keys(msaDataCache)
                        ELSE lookCode \in DOMAIN msaCache

\* route.ts line 45, msa-percentile.ts line 30:
\* if (cache.has(cbsaCode)) return cache.get(cbsaCode)
LookupHas ==
    /\ lookPc = "has"
    /\ IF LookupCached
         THEN /\ lookPc' = "returned"
              /\ lookResult' = [data |-> IF loader = "route"
                                           THEN Get(msaDataCache, lookCode)
                                           ELSE msaCache[lookCode],
                                how |-> "hit"]
         ELSE /\ lookPc' = "read"
              /\ UNCHANGED lookResult
    /\ UNCHANGED <<loader, lookCode, reads, msaDataCache, msaCache>>
    /\ LookupOthers

\* Mutant: a failed read is tried once more before the catch returns null.
LookupRead_RetriesOnce ==
    /\ lookPc = "read"
    /\ reads' = reads + 1
    /\ IF MsaFileExists(lookCode)
         THEN /\ lookPc' = (IF loader = "route" THEN "room" ELSE "set")
              /\ lookResult' = [data |-> MsaFile(lookCode), how |-> "none"]
         ELSE IF reads = 0
           THEN /\ lookPc' = "read"
                /\ UNCHANGED lookResult
           ELSE /\ lookPc' = "returned"
                /\ lookResult' = [data |-> Null, how |-> "absent"]
    /\ UNCHANGED <<loader, lookCode, msaDataCache, msaCache>>
    /\ LookupOthers

\* route.ts lines 46-48 and 55-57, msa-percentile.ts lines 31-33 and 36-38:
\* data = JSON.parse(readFileSync(filePath)); when the file is missing
\* readFileSync throws and the catch returns null
LookupRead ==
    /\ lookPc = "read"
    /\ reads' = reads + 1
    /\ IF MsaFileExists(lookCode)
         THEN /\ lookPc' = (IF loader = "route" THEN "room" ELSE "set")
              /\ lookResult' = [data |-> MsaFile(lookCode), how |-> "none"]
         ELSE /\ lookPc' = "returned"
              /\ lookResult' = [data |-> Null, how |-> "absent"]
    /\ UNCHANGED <<loader, lookCode, msaDataCache, msaCache>>
    /\ LookupOthers

\* route.ts lines 49-52: if (msaDataCache.size >= MSA_DATA_MAX) delete the
\* oldest key.  The ranker's copy has no such lines.
LookupRoom ==
    /\ lookPc = "room"
    /\ msaDataCache' = (IF Len(msaDataCache) >= MSA_DATA_MAX
                          THEN DeleteOldest(msaDataCache) ELSE msaDataCache)
    /\ lookPc' = "set"
    /\ UNCHANGED <<loader, lookCode, reads, lookResult, msaCache>>
    /\ LookupOthers

\* route.ts lines 53-54, msa-percentile.ts lines 34-35:
\* cache.set(cbsaCode, data); return data
LookupSet ==
    /\ lookPc = "set"
    /\ IF loader = "route"
         THEN /\ msaDataCache' = Set(msaDataCache, lookCode, lookResult.data)
              /\ UNCHANGED msaCache
         ELSE /\ msaCache' = [c \in DOMAIN msaCache \cup {lookCode} |->
                                 IF c = lookCode THEN lookResult.data ELSE msaCache[c]]
              /\ UNCHANGED msaDataCache
    /\ lookPc' = "returned"
    /\ lookResult' = [data |-> lookResult.data, how |-> "loaded"]
    /\ UNCHANGED <<loader, lookCode, reads>>
    /\ LookupOthers

\* the statements of the body
LookupStep ==
    \/ LookupHas
    \/ LookupRead
    \/ LookupRoom
    \/ LookupSet

LookupNext ==
    \/ \E cbsaCode \in LookupCodes : LookupCall(cbsaCode)
    \/ LookupStep

----------------------------------------------------------------------------
(* Specifications.  The three parts share no state: each specification runs *)
(* one part and holds the variables of the other two at their start.        *)

PctIdle ==
    /\ pc = "call"
    /\ incomeThreshold = 0
    /\ totalHouseholds = 0
    /\ bracketCounts = [i \in 1..NumBrackets |-> 0]
    /\ householdsAbove = 0
    /\ pct = 0
    /\ prevCall = <<>>

ThrIdle ==
    /\ kind = "rent"
    /\ origin = Rat(0)
    /\ amount = Rat(0)
    /\ sites = <<>>
    /\ steps = 0
    /\ uniformThreshold = Rat(0)

ReqIdle == inFlight = <<>>

FmrIdle ==
    /\ geoZip = 0
    /\ metroFmr = <<0, 0, 0, 0, 0>>
    /\ fmrData = [fmrByBedroom |-> <<0, 0, 0, 0, 0>>, isSafmr |-> FALSE]

PageIdle == urlQuery = NoQuery /\ PageStart

LookIdle ==
    /\ loader = "route"
    /\ lookPc = "idle"
    /\ lookCode = 0
    /\ reads = 0
    /\ lookResult = [data |-> Null, how |-> "none"]

TblIdle ==
    /\ incomeData = [totalHouseholds |-> 0, brackets |-> <<>>]
    /\ incomeLimit = 0
    /\ tableRow = NoRow
    /\ interpolated = NotInterpolated

ListIdle ==
    /\ allPcts = <<>>
    /\ sorted = <<>>
    /\ mapRanks = <<>>
    /\ rankerRanks = <<>>

RankIdle ==
    /\ msaCache = <<>>
    /\ rankCall = [county |-> 0, tractFips |-> 0, incomeThreshold |-> 0,
                   safmrSupplied |-> FALSE, bedroomIndex |-> 2]
    /\ rankLoad = "none"
    /\ tractThresholds = <<>>
    /\ tractPcts = <<>>
    /\ targetPct = <<>>
    /\ rankResult = NoResult("none")

\* computeAffordabilityPct
Init == PctInit /\ ThrIdle /\ CacheInit /\ RankIdle /\ ListIdle /\ ReqIdle /\ TblIdle /\ LookIdle /\ FmrIdle /\ PageIdle
Next == PctNext
Spec == Init /\ [][Next]_vars

\* threshold derivation
ThresholdInit == PctIdle /\ ThrInit /\ CacheInit /\ RankIdle /\ ListIdle /\ ReqIdle /\ TblIdle /\ LookIdle /\ FmrIdle /\ PageIdle
ThresholdNext == ThrNext
SpecThreshold == ThresholdInit /\ [][ThresholdNext]_vars

\* /api/choropleth
ChoroplethInit == PctIdle /\ ThrIdle /\ CacheInit /\ RankIdle /\ ListIdle /\ ReqIdle /\ TblIdle /\ LookIdle /\ FmrIdle /\ PageIdle
ChoroplethNext == CacheNext
SpecCache == ChoroplethInit /\ [][ChoroplethNext]_vars

\* computeMsaPercentile
RankerInit == PctIdle /\ ThrIdle /\ CacheInit /\ RankInit /\ ListIdle /\ ReqIdle /\ TblIdle /\ LookIdle /\ FmrIdle /\ PageIdle
RankerNext == RankNext
SpecRanker == RankerInit /\ [][RankerNext]_vars

\* ranks of one list, by the map and by the ranker
RanksInit == PctIdle /\ ThrIdle /\ CacheInit /\ RankIdle /\ ListInit /\ ReqIdle /\ TblIdle /\ LookIdle /\ FmrIdle /\ PageIdle
RanksNext == ListNext
SpecRanks == RanksInit /\ [][RanksNext]_vars

\* the choropleth route with several requests open at a time
ConcurrentReqInit == PctIdle /\ ThrIdle /\ ConcurrentInit /\ RankIdle /\ ListIdle /\ TblIdle /\ LookIdle /\ FmrIdle /\ PageIdle
ConcurrentReqNext == ConcurrentNext
SpecConcurrent == ConcurrentReqInit /\ [][ConcurrentReqNext]_vars

\* the interpolators and the AMI table of one tract
TractInit == PctIdle /\ ThrIdle /\ CacheInit /\ RankIdle /\ ListIdle /\ ReqIdle /\ TableInit /\ LookIdle /\ FmrIdle /\ PageIdle
TractNext == TableNext
SpecTable == TractInit /\ [][TractNext]_vars

\* /api/lookup's ranking call
LookupRouteInit == PctIdle /\ ThrIdle /\ CacheInit /\ RankIdle /\ ListIdle /\ ReqIdle /\ TblIdle /\ LookIdle /\ RouteInit /\ PageIdle
LookupRouteNext == RouteNext
SpecLookupRoute == LookupRouteInit /\ [][LookupRouteNext]_vars

\* the interpolators' last line in doubles
WholeInit == PctIdle /\ ThrIdle /\ CacheInit /\ RankIdle /\ ListIdle /\ ReqIdle /\ RoundingInit /\ LookIdle /\ FmrIdle /\ PageIdle
WholeNext == RoundingNext
SpecRounding == WholeInit /\ [][WholeNext]_vars

\* the page opened on a URL
UrlInit == PctIdle /\ ThrIdle /\ CacheInit /\ RankIdle /\ ListIdle /\ ReqIdle /\ TblIdle /\ LookIdle /\ FmrIdle /\ urlQuery \in UrlQueries /\ PageStart
SpecPageUrl == UrlInit /\ [][UrlNext]_vars

\* the page and its lookups
PageInit == PctIdle /\ ThrIdle /\ CacheInit /\ RankIdle /\ ListIdle /\ ReqIdle /\ TblIdle /\ LookIdle /\ FmrIdle /\ urlQuery \in {NoQuery, [address |-> TRUE, household |-> Missing, bedrooms |-> Missing]} /\ PageStart
SpecPage == PageInit /\ [][PageNext]_vars

\* The same, every request getting its response or failing: fetch settles.
SpecPageFair ==
    /\ PageInit
    /\ [][PageNext]_vars
    /\ \A id \in 1..MaxLookups :
          /\ WF_vars(\E l \in lookups :
                        l.id = id /\ (LookupOk(l) \/ LookupHttpError(l) \/ LookupThrows(l)))
          /\ WF_vars(\E f \in chorFetches :
                        f.id = id /\ (ChoroplethOk(f) \/ ChoroplethFails(f)))

\* loadMsaData, statement by statement
LoadInit == PctIdle /\ ThrIdle /\ CacheInit /\ RankIdle /\ ListIdle /\ ReqIdle /\ TblIdle /\ LookupInit /\ FmrIdle /\ PageIdle
LoadNext == LookupNext
SpecLookup == LoadInit /\ [][LoadNext]_vars

\* The same, with the engine running a call that has started to its return:
\* the body is synchronous straight-line code, every statement of it is
\* taken once it is reached (readFileSync returns or throws).
SpecLookupFair ==
    /\ LoadInit
    /\ [][LoadNext]_vars
    /\ WF_vars(LookupHas)
    /\ WF_vars(LookupRead)
    /\ WF_vars(LookupRoom)
    /\ WF_vars(LookupSet)

----------------------------------------------------------------------------
(* Claims about computeAffordabilityPct (checked under Spec)                *)

Returned == pc = "done"

\* C1 as stated: for every threshold, every totalHouseholds >= 0 and every
\* 16 non-negative counts (their sum not tied to totalHouseholds), the
\* returned percentage is in [0, 100].
C1_AlwaysInRange == Returned => pct \in 0..1000

\* C1, amended: for every threshold, every totalHouseholds >= 0 and every 16
\* non-negative counts whose sum does not exceed totalHouseholds (or with
\* totalHouseholds = 0), the returned percentage is in [0, 100].
C1_InRangeWhenCountsFit ==
    (Returned /\ (totalHouseholds = 0 \/ Sum(bracketCounts) <= totalHouseholds))
        => pct \in 0..1000

\* C1 witness: a call with 0 < sum(counts) <= totalHouseholds that returned a
\* percentage strictly between 0 and 100.
C1_Witness ==
    /\ Returned
    /\ Sum(bracketCounts) > 0
    /\ Sum(bracketCounts) <= totalHouseholds
    /\ pct > 0
    /\ pct < 1000

\* C2 as stated: for every threshold <= 0 (the lowest bracket minimum), every
\* totalHouseholds > 0 and every count sequence, the result is 100.0.
C2_LowThresholdIs100 ==
    (Returned /\ incomeThreshold <= 2 * BRACKET_BOUNDS[1][1] /\ totalHouseholds > 0)
        => pct = 1000

\* C2, amended: for every threshold <= 0 and every totalHouseholds > 0 whose
\* bracket counts sum to totalHouseholds, the result is 100.0.
C2_LowThresholdIs100WhenCountsSum ==
    (/\ Returned
     /\ incomeThreshold <= 2 * BRACKET_BOUNDS[1][1]
     /\ totalHouseholds > 0
     /\ Sum(bracketCounts) = totalHouseholds)
        => pct = 1000

\* C2 witness: a returned call with a threshold below 0, households in the
\* lowest bracket, counts summing to totalHouseholds, and the result 100.0.
C2_Witness ==
    /\ Returned
    /\ incomeThreshold < 0
    /\ bracketCounts[1] > 0
    /\ Sum(bracketCounts) = totalHouseholds
    /\ pct = 1000

\* C3: monotonicity.  For a fixed histogram and total, a call with a higher
\* threshold never returns a higher percentage than a call with a lower one.
C3_Monotone ==
    (Returned /\ prevCall # <<>> /\ prevCall[1] < incomeThreshold)
        => prevCall[2] >= pct

\* C3 witness: two calls on one histogram, the first with the threshold on a
\* bracket's max, the second above 200000, the percentage strictly lower.
C3_Witness ==
    /\ Returned
    /\ prevCall # <<>>
    /\ \E i \in 1..(NumBrackets - 1) : prevCall[1] = 2 * BRACKET_BOUNDS[i][2]
    /\ incomeThreshold > 2 * 200000
    /\ prevCall[2] > pct
    /\ pct > 0

\* The brackets by where the threshold falls, as the claim words them.
WhollyAbove(threshold2) ==
    { i \in 1..NumBrackets : 2 * BRACKET_BOUNDS[i][1] >= threshold2 }

Straddling(threshold2) ==
    { i \in 1..(NumBrackets - 1) :
          /\ 2 * BRACKET_BOUNDS[i][1] < threshold2
          /\ 2 * BRACKET_BOUNDS[i][2] >= threshold2 }

TopBelow(threshold2) ==
    { i \in {NumBrackets} : 2 * BRACKET_BOUNDS[i][1] < threshold2 }

RECURSIVE SetSum(_, _)
SetSum(S, counts) ==
    IF S = {} THEN 0
    ELSE LET i == CHOOSE j \in S : TRUE
         IN  counts[i] + SetSum(S \ {i}, counts)

\* above = sum of c over brackets with min >= threshold
\*       + c * (max - threshold + 1) / (max - min + 1) over the bounded
\*         bracket with min < threshold <= max
\*       + the top bracket's c when its min < threshold,
\* in 1/Unit households.
StatedAbove(threshold2, counts) ==
    Unit * SetSum(WhollyAbove(threshold2), counts)
    + (IF Straddling(threshold2) = {} THEN 0
       ELSE LET s == CHOOSE i \in Straddling(threshold2) : TRUE
                min == BRACKET_BOUNDS[s][1]
                max == BRACKET_BOUNDS[s][2]
            IN  counts[s] * (2 * max - threshold2 + 2) * (Unit \div (2 * (max - min + 1))))
    + Unit * SetSum(TopBelow(threshold2), counts)

\* r is x rounded to the nearest integer, halves up: r - 1/2 <= x < r + 1/2,
\* for x = num / den.
IsRounded(r, num, den) ==
    /\ (2 * r - 1) * den <= 2 * num
    /\ 2 * num < (2 * r + 1) * den

\* C4: for totalHouseholds > 0 the accumulated householdsAbove is the stated
\* per-bracket sum (c when min >= threshold; c (max - threshold + 1) /
\* (max - min + 1) for a bounded bracket with min < threshold <= max; 0 for a
\* bounded bracket with max < threshold) and the result is
\* 100 * above / totalHouseholds rounded to one decimal.
C4_StatedFormula ==
    (Returned /\ totalHouseholds > 0)
        => /\ householdsAbove = StatedAbove(incomeThreshold, bracketCounts)
           /\ IsRounded(pct, StatedAbove(incomeThreshold, bracketCounts),
                        (Unit \div 1000) * totalHouseholds)

\* C4 witness: a returned call whose threshold is strictly inside a bounded
\* bracket holding households, so that the interpolated share is used.
C4_Witness ==
    /\ Returned
    /\ totalHouseholds > 0
    /\ \E i \in Straddling(incomeThreshold) :
          /\ bracketCounts[i] > 0
          /\ incomeThreshold < 2 * BRACKET_BOUNDS[i][2]
    /\ pct > 0

\* C5: the top bracket is never interpolated: at every threshold it adds its
\* entire count, i.e. householdsAbove is what the bounded brackets alone add
\* plus the whole top count.
C5_TopBracketWhole ==
    (Returned /\ totalHouseholds > 0)
        => householdsAbove
             = LoopHouseholdsAbove(incomeThreshold,
                                   [bracketCounts EXCEPT ![NumBrackets] = 0])
               + Unit * bracketCounts[NumBrackets]

\* C5 witness: a returned call with a threshold above 200000 and households
\* in the top bracket, all of them counted as above.
C5_Witness ==
    /\ Returned
    /\ totalHouseholds > 0
    /\ incomeThreshold > 2 * BRACKET_BOUNDS[NumBrackets][1]
    /\ bracketCounts[NumBrackets] > 0
    /\ householdsAbove >= Unit * bracketCounts[NumBrackets]

Scenario1 ==
    /\ bracketCounts = [i \in 1..NumBrackets |-> 10]
    /\ totalHouseholds = 160
    /\ incomeThreshold = 2 * 32500

\* C6 as stated: 16 counts of 10, totalHouseholds 160, threshold 32500 give
\* 40.6 (65 households above).
C6_Scenario1Is406 == (Returned /\ Scenario1) => pct = 406

\* C6, amended: 16 counts of 10, totalHouseholds 160, threshold 32500 give
\* 65.6: 105 households above, 100 from the ten brackets with min >= 35000
\* and 5 from the straddling bracket [30000, 34999].
C6_Scenario1Is656 ==
    (Returned /\ Scenario1) => (pct = 656 /\ householdsAbove = 105 * Unit)

\* C6 witness: the scenario has been computed.
C6_Witness == Returned /\ Scenario1 /\ pct = 656

\* C7: with totalHouseholds = 0 the result is 0 for every threshold and
\* every count sequence.
C7_ZeroTotalIsZero == (Returned /\ totalHouseholds = 0) => pct = 0

\* C7 witness: a returned call with totalHouseholds = 0, non-zero counts and
\* a threshold below every bracket, answering 0.
C7_Witness ==
    /\ Returned
    /\ totalHouseholds = 0
    /\ Sum(bracketCounts) > 0
    /\ incomeThreshold <= 0
    /\ pct = 0

----------------------------------------------------------------------------
(* Claims about the threshold derivation (checked under SpecThreshold)      *)

RentSites == {"lookup", "ranker", "map", "page"}

\* C8: each of the four places that turn a monthly rent into an income
\* threshold yields rent * 12 / 0.30, i.e. 30% of the threshold is the yearly
\* rent, and a rent of 1500 yields 60000.  (The ranker converts a ZIP rent
\* only when it is non-zero.)
C8_SameFormulaAtEverySite ==
    (/\ steps = 1
     /\ sites[1] \in RentSites
     /\ ~(sites[1] = "ranker" /\ origin = Rat(0)))
        => /\ RatEq(RatMul(amount, <<30, 100>>), RatMul(origin, Rat(12)))
           /\ (origin = Rat(1500) => amount = Rat(60000))

\* C8 witness: the ranker turned a ZIP rent of 1500 into the threshold 60000.
C8_Witness ==
    /\ steps = 1
    /\ sites = <<"ranker">>
    /\ origin = Rat(1500)
    /\ amount = Rat(60000)

----------------------------------------------------------------------------
(* Claims about the choropleth route's caches (checked under SpecCache)     *)

K == MSA_DATA_MAX

\* The request asks for the income dataset of region `code`.
LooksUp(code) ==
    \E county \in Counties :
        /\ countyToCbsa(county) = code
        /\ (GetOk(county) \/ GetNoIncomeData(county))

\* C10: from an empty cache, once K + 1 distinct regions have been loaded
\* the cache holds exactly K entries, the first-loaded region is not among
\* them (the K loaded after it are), and the next lookup of the first-loaded
\* region misses: its file is read again and it is inserted again.
C10_FirstLoadedIsEvicted ==
    /\ [](Len(msaLoads) = K + 1
            => /\ Cardinality({ msaLoads[i] : i \in 1..(K + 1) }) = K + 1
               /\ Len(msaDataCache) = K
               /\ msaLoads[1] \notin Keys(msaDataCache)
               /\ Keys(msaDataCache) = { msaLoads[i] : i \in 2..(K + 1) })
    /\ [][(Len(msaLoads) = K + 1 /\ LooksUp(msaLoads[1]))
            => /\ response'.msa = "loaded"
               /\ msaLoads' = Append(msaLoads, msaLoads[1])
               /\ msaLoads[1] \in Keys(msaDataCache')
               /\ Len(msaDataCache') = K]_vars

\* C10 witness: K + 1 regions were loaded, then the first of them was looked
\* up again and reloaded.
C10_Witness ==
    /\ Len(msaLoads) = K + 2
    /\ msaLoads[K + 2] = msaLoads[1]
    /\ response.msa = "loaded"
    /\ Len(msaDataCache) = K

\* C11 as stated: every region dataset cache holds at most K entries: the
\* route's income cache, its geometry cache, and the cache through which
\* computeMsaPercentile loads region datasets.
C11_EveryCacheAtMostK ==
    /\ Len(msaDataCache) <= K
    /\ Len(geoCache) <= K
    /\ Cardinality(DOMAIN msaCache) <= K

\* The log position of the load that made `code` resident.
LastLoad(code) ==
    CHOOSE i \in 1..Len(msaLoads) :
        /\ msaLoads[i] = code
        /\ \A j \in (i + 1)..Len(msaLoads) : msaLoads[j] # code

\* No resident region of the income cache was loaded before position `at`.
NoneLoadedBefore(at) == \A d \in Keys(msaDataCache) : at <= LastLoad(d)

\* The resident region of the income cache that was loaded earliest.
EarliestLoaded == CHOOSE c \in Keys(msaDataCache) : NoneLoadedBefore(LastLoad(c))

\* C12: eviction is by insertion order, not access order.  A hit leaves the
\* cache as it is, order included; a load into a full cache evicts the
\* resident that was loaded earliest and keeps the others in their order,
\* whichever resident was read last.
C12_InsertionOrderEviction ==
    [][ /\ (response'.msa = "hit" => msaDataCache' = msaDataCache)
        /\ (response'.geo = "hit" => geoCache' = geoCache)
        /\ (response'.msa = "loaded" /\ Len(msaDataCache) = MSA_DATA_MAX
              => /\ Keys(msaDataCache) \ Keys(msaDataCache') = {EarliestLoaded}
                 /\ SubSeq(msaDataCache', 1, MSA_DATA_MAX - 1) = Tail(msaDataCache))
        /\ (response'.geo = "loaded" /\ Len(geoCache) = GEO_CACHE_MAX
              => SubSeq(geoCache', 1, GEO_CACHE_MAX - 1) = Tail(geoCache))
      ]_vars

\* C12 witness: the income cache is full and the last request read its
\* earliest-loaded resident by a hit (a 200 answered from the income cache
\* and without geometry is a request for the region that has no geometry
\* file), so that resident is both the most recently read and the next to go.
C12_Witness ==
    /\ Len(msaDataCache) = MSA_DATA_MAX
    /\ response = [status |-> 200, msa |-> "hit", geo |-> "absent"]
    /\ msaDataCache[1].code = NumRegions - 1
    /\ EarliestLoaded = NumRegions - 1
    /\ Len(geoCache) = GEO_CACHE_MAX

\* The regions without an income file, and those without a geometry file.
NoIncomeFile == { c \in Regions : ~MsaFileExists(c) }
NoGeoFile == { c \in Regions : ~GeoFileExists(c) }

\* The load returned absent and left the cache as it was.
AbsentUnchanged(load, cache) ==
    /\ load.how = "absent"
    /\ load.data = Null
    /\ load.cache = cache

\* The ranker's last call asked for a tract of a region without a file.
RankedMissing ==
    /\ rankResult.outcome # "none"
    /\ countyToCbsa(rankCall.county) # 0
    /\ ~MsaFileExists(countyToCbsa(rankCall.county))

\* C13: in every reachable state of the caches, full or not, a load of a
\* region whose file is missing returns absent and leaves the cache as it
\* is; no cache ever holds such a region and none was ever logged as loaded,
\* so every lookup of it attempts the load again and is never a hit.  A
\* request answered absent leaves the cache and the load log as they were.
\* This is stated of the route's income and geometry caches, exercised by the
\* choropleth requests, and of the ranker's cache, exercised by its calls.
C13_AbsentIsNotCached ==
    /\ [](/\ \A c \in Keys(msaDataCache) : MsaFileExists(c)
          /\ \A c \in Keys(geoCache) : GeoFileExists(c)
          /\ \A c \in DOMAIN msaCache : MsaFileExists(c)
          /\ \A i \in 1..Len(msaLoads) : MsaFileExists(msaLoads[i])
          /\ \A c \in NoIncomeFile :
                /\ AbsentUnchanged(loadMsaData(msaDataCache, c), msaDataCache)
                /\ AbsentUnchanged(rankerLoadMsaData(msaCache, c), msaCache)
          /\ \A c \in NoGeoFile :
                AbsentUnchanged(loadGeoData(geoCache, c), geoCache)
          /\ RankedMissing => (rankLoad = "absent" /\ rankResult.outcome = "null"))
    /\ [][ /\ (response'.msa = "absent"
                 => /\ msaDataCache' = msaDataCache
                    /\ msaLoads' = msaLoads
                    /\ response'.status = 404)
           /\ (response'.geo = "absent" => geoCache' = geoCache)
           /\ (RankedMissing' => msaCache' = msaCache)
         ]_vars

\* C13 witness: the income cache is full, the geometry cache is full, and
\* the last request asked for the region without an income file: it was
\* answered 404 and both caches still hold their five regions.
C13_Witness ==
    /\ Len(msaDataCache) = MSA_DATA_MAX
    /\ Len(geoCache) = GEO_CACHE_MAX
    /\ response = [status |-> 404, msa |-> "absent", geo |-> "none"]
    /\ Len(msaLoads) > MSA_DATA_MAX

\* C14: the two caches are independent.  The geometry cache changes only by
\* its own load, and then by its own state alone: the regions it keeps stay
\* in their order and at most its own oldest entry goes, whatever the income
\* cache loads or evicts in the same request; and the same holds of the
\* income cache.
C14_CachesIndependent ==
    [][ /\ (geoCache' # geoCache
              => /\ response'.geo = "loaded"
                 /\ \/ geoCache' = Append(geoCache, geoCache'[Len(geoCache')])
                    \/ /\ Len(geoCache) = GEO_CACHE_MAX
                       /\ geoCache' = Append(Tail(geoCache), geoCache'[Len(geoCache')]))
        /\ (msaDataCache' # msaDataCache
              => /\ response'.msa = "loaded"
                 /\ \/ msaDataCache' = Append(msaDataCache, msaDataCache'[Len(msaDataCache')])
                    \/ /\ Len(msaDataCache) = MSA_DATA_MAX
                       /\ msaDataCache' = Append(Tail(msaDataCache),
                                                 msaDataCache'[Len(msaDataCache')]))
      ]_vars

\* C14 witness: a region is resident in the geometry cache after the income
\* cache evicted it, another is resident in the income cache and not in the
\* geometry cache, and the income cache has just evicted while the geometry
\* cache answered from memory.
C14_Witness ==
    /\ \E c \in Keys(geoCache) : c \notin Keys(msaDataCache)
    /\ \E c \in Keys(msaDataCache) : c \notin Keys(geoCache)
    /\ response = [status |-> 200, msa |-> "loaded", geo |-> "hit"]
    /\ Len(msaLoads) > MSA_DATA_MAX

----------------------------------------------------------------------------
(* Claims about computeMsaPercentile (checked under SpecRanker)             *)

Called == rankResult.outcome # "none"

\* the region of the last call and the tract list of its file
CallCbsa == countyToCbsa(rankCall.county)
CallRows == IF CallCbsa = 0 \/ ~MsaFileExists(CallCbsa) THEN <<>> ELSE TractRows(CallCbsa)
CallTarget == <<rankCall.county, rankCall.tractFips>>

TargetListed == \E i \in 1..Len(CallRows) : CallRows[i].fips = CallTarget

\* C15: computeMsaPercentile returns null, and nothing else happens, in each
\* not-found case: the county has no entry in the county-to-region mapping;
\* the region's dataset cannot be loaded or is an empty list; the target is
\* not in the region's tract list.
C15_NotFoundIsNull ==
    (/\ Called
     /\ \/ CallCbsa = 0
        \/ ~MsaFileExists(CallCbsa)
        \/ Len(TractRows(CallCbsa)) = 0
        \/ ~TargetListed)
        => rankResult = NoResult("null")

\* C15 witness: a call for a tract that is not in its region's list of five
\* tracts: every percentage was computed, no target was found, null returned.
C15_Witness ==
    /\ Called
    /\ Len(CallRows) = 5
    /\ ~TargetListed
    /\ Len(tractPcts) = 5
    /\ targetPct = <<>>
    /\ rankResult.outcome = "null"

\* tracts of the last call that are not strictly below the target
NotBelow == { i \in 1..Len(tractPcts) : tractPcts[i] >= targetPct[1] }

\* C16: when the target is found the percentile is 100 * belowCount /
\* tractCount rounded to one decimal, belowCount being the number of the
\* region's tracts strictly below the target's percentage and tractCount the
\* number of all its tracts; tracts tied with the target are not counted, and
\* the percentages 10, 20, 20, 55, 90 with target 20 give 20.0.
C16_PercentileIsShareBelow ==
    (Called /\ TargetListed)
        => /\ rankResult.outcome = "result"
           /\ rankResult.msaTractCount = Len(CallRows)
           /\ Len(tractPcts) = Len(CallRows)
           /\ IsRounded(rankResult.percentile,
                        1000 * (Len(CallRows) - Cardinality(NotBelow)), Len(CallRows))
           /\ (tractPcts = <<100, 200, 200, 550, 900>> /\ targetPct = <<200>>
                 => rankResult.percentile = 200)

\* C16 witness: scenario 3, a region whose percentages are 10, 20, 20, 55, 90
\* and a target at 20, ranked at 20.0.
C16_Witness ==
    /\ Called
    /\ tractPcts = <<100, 200, 200, 550, 900>>
    /\ targetPct = <<200>>
    /\ rankResult = [outcome |-> "result", percentile |-> 200, msaTractCount |-> 5]

\* C17: with n >= 1 tracts and the target among them, the percentile is
\* 100 * k / n rounded to one decimal for some k in 0..n, and it is 0.0 when
\* no tract is strictly below the target.
C17_PercentileOnGrid ==
    (Called /\ TargetListed)
        => /\ \E k \in 0..Len(CallRows) :
                 IsRounded(rankResult.percentile, 1000 * k, Len(CallRows))
           /\ ((\A i \in 1..Len(tractPcts) : tractPcts[i] >= targetPct[1])
                 => rankResult.percentile = 0)

\* C17 witness: a region of three tracts whose target has one tract below it
\* and is ranked at 33.3, a value that one decimal cannot hold exactly.
C17_Witness ==
    /\ Called
    /\ TargetListed
    /\ Len(CallRows) = 3
    /\ Cardinality(NotBelow) = 2
    /\ rankResult.percentile = 333

\* incomeForRent(rent) = rent * 12 / 0.30, in half dollars
IncomeForRent2(rent) == (2 * rent * 12 * 10) \div 3

\* the tract has a representative ZIP and the ZIP has an entry in the table
ZipHasEntry(fips) == zipMapping(fips) # 0 /\ zipMapping(fips) \in DOMAIN safmrByZip

ZipRent(fips) == safmrByZip[zipMapping(fips)][rankCall.bedroomIndex + 1]

\* C18 as stated: with a rent table, a tract whose ZIP has an entry is
\* evaluated at incomeForRent(rentTable[zip][bedroomIndex]), a tract without
\* ZIP or entry at uniformThreshold; without a table every tract is
\* evaluated at uniformThreshold.
C18_ThresholdPerTract ==
    (Called /\ Len(tractThresholds) > 0)
        => \A i \in 1..Len(CallRows) :
              tractThresholds[i]
                = IF rankCall.safmrSupplied /\ ZipHasEntry(CallRows[i].fips)
                    THEN IncomeForRent2(ZipRent(CallRows[i].fips))
                    ELSE rankCall.incomeThreshold

\* C18, amended: with a rent table, a tract whose ZIP has an entry with a
\* non-zero rent at bedroomIndex is evaluated at incomeForRent of that rent;
\* a tract without ZIP, without entry, or whose entry's rent at bedroomIndex
\* is 0 is evaluated at uniformThreshold; without a table every tract is
\* evaluated at uniformThreshold.  Each tract is decided on its own.
C18_ThresholdPerTractNonZeroRent ==
    (Called /\ Len(tractThresholds) > 0)
        => /\ Len(tractThresholds) = Len(CallRows)
           /\ \A i \in 1..Len(CallRows) :
                 tractThresholds[i]
                   = IF /\ rankCall.safmrSupplied
                        /\ ZipHasEntry(CallRows[i].fips)
                        /\ ZipRent(CallRows[i].fips) # 0
                       THEN IncomeForRent2(ZipRent(CallRows[i].fips))
                       ELSE rankCall.incomeThreshold

\* C18 witness: one call with a rent table and 3BR rents in which the first
\* tract is evaluated at its ZIP's rent (1400 a month, 56000 a year), the
\* second at the uniform threshold because its ZIP's rent is 0, the third
\* and fourth at the uniform threshold for want of an entry and of a ZIP.
C18_Witness ==
    /\ Called
    /\ rankCall.safmrSupplied
    /\ rankCall.bedroomIndex = 3
    /\ Len(tractThresholds) = 5
    /\ tractThresholds[1] = 2 * 56000
    /\ tractThresholds[1] # rankCall.incomeThreshold
    /\ tractThresholds[2] = rankCall.incomeThreshold
    /\ tractThresholds[3] = rankCall.incomeThreshold
    /\ tractThresholds[4] = rankCall.incomeThreshold

\* tracts of the called region without households
EmptyTracts == { i \in 1..Len(CallRows) : CallRows[i].total = 0 }

\* C20: a tract with totalHouseholds = 0 takes part in the ranking: its
\* percentage is 0, it is counted in tractCount, and it is counted as below
\* every target whose percentage is above 0.
C20_EmptyTractIsRanked ==
    (Called /\ TargetListed)
        => /\ \A i \in EmptyTracts : tractPcts[i] = 0
           /\ rankResult.msaTractCount = Len(CallRows)
           /\ (targetPct[1] > 0
                 => LET others == { i \in 1..Len(CallRows) :
                                       i \notin EmptyTracts /\ tractPcts[i] < targetPct[1] }
                    IN  IsRounded(rankResult.percentile,
                                  1000 * (Cardinality(EmptyTracts) + Cardinality(others)),
                                  Len(CallRows)))

\* C20 witness: a region of four tracts, the first without households; the
\* target's percentage is above 0 and the tracts below it are the one
\* without households and one other, so the percentile is 50.0.
C20_Witness ==
    /\ Called
    /\ TargetListed
    /\ Len(CallRows) = 4
    /\ EmptyTracts = {1}
    /\ targetPct[1] > 0
    /\ { i \in 1..4 : tractPcts[i] < targetPct[1] } = {1, 2}
    /\ rankResult = [outcome |-> "result", percentile |-> 500, msaTractCount |-> 4]

----------------------------------------------------------------------------
(* Claim about the two ways of ranking (checked under SpecRanks)            *)

BothRanked == Len(mapRanks) = Len(allPcts) /\ Len(rankerRanks) = Len(allPcts)

\* C19: for every list of percentages, duplicates included, and every item
\* of it, the number of strictly lower values that the map finds by sorting
\* and binary search is the number the ranker finds by comparing with every
\* element, and the two percentiles are the same.
C19_SearchEqualsLinearCount ==
    BothRanked
        => \A i \in 1..Len(allPcts) :
              /\ mapRanks[i].belowCount = rankerRanks[i].belowCount
              /\ mapRanks[i].percentile = rankerRanks[i].percentile

\* C19 witness: an unsorted list with a duplicated value that has a lower
\* value below it, ranked both ways.
C19_Witness ==
    /\ BothRanked
    /\ sorted # allPcts
    /\ \E i, j \in 1..Len(allPcts) :
          /\ i # j
          /\ allPcts[i] = allPcts[j]
          /\ mapRanks[i].belowCount > 0
          /\ mapRanks[i].belowCount = rankerRanks[j].belowCount

----------------------------------------------------------------------------
(* Claim about concurrent choropleth requests (checked under SpecConcurrent) *)

\* no region is resident twice, and every entry holds its own region's file
WellFormed(cache, max) ==
    /\ Len(cache) <= max
    /\ Cardinality(Keys(cache)) = Len(cache)

HoldsOwnFiles ==
    /\ \A i \in 1..Len(msaDataCache) :
          msaDataCache[i].data = MsaFile(msaDataCache[i].code)
    /\ \A i \in 1..Len(geoCache) :
          geoCache[i].data = GeoFile(geoCache[i].code)

\* C21: whatever requests are open at a time and in whatever order their
\* handlers run, several requests for one uncached region included, each
\* cache stays within its capacity, holds no region twice and holds for each
\* resident region the file of that region; setting a resident key again
\* leaves a single entry; and a handler changes the income cache only by
\* loading one region that was not resident.
C21_ConcurrentRequestsKeepCache ==
    /\ [](/\ WellFormed(msaDataCache, MSA_DATA_MAX)
          /\ WellFormed(geoCache, GEO_CACHE_MAX)
          /\ HoldsOwnFiles
          /\ \A c \in Keys(msaDataCache) :
                Set(msaDataCache, c, MsaFile(c)) = msaDataCache)
    /\ [][msaDataCache' # msaDataCache
            => /\ response'.msa = "loaded"
               /\ Cardinality(Keys(msaDataCache') \ Keys(msaDataCache)) = 1]_vars

\* C21 witness: two requests for one region were open, the first of them was
\* run and loaded the region into a full cache, and the second is still open.
C21_Witness ==
    /\ Len(inFlight) = 1
    /\ response = [status |-> 200, msa |-> "loaded", geo |-> "loaded"]
    /\ Len(msaDataCache) = MSA_DATA_MAX
    /\ msaDataCache[1].code # 1
    /\ msaDataCache[MSA_DATA_MAX].code = countyToCbsa(inFlight[1])

----------------------------------------------------------------------------
(* Claims about the page's AMI table and the interpolators (SpecTable)      *)

Rowed == tableRow # NoRow

PageBrackets == ResponseBrackets(incomeData.brackets)

\* C22: for each row of the AMI table, income is the limit times the row's
\* percentage; the floor is 0.75 times the income, and it is the income of
\* which the row's rent (30% of income, monthly) is 40%; percentCanAfford is
\* the percentage above the income and percentFeasible is the percentage
\* above the floor minus it, a whole number of tenths; and percentFeasible
\* is not negative.  The percentages are cross-checked against the shared
\* computeAffordabilityPct where the threshold is a whole half dollar.
C22_FeasibleBand ==
    Rowed =>
      /\ RatEq(tableRow.exactIncome,
               RatDiv(Rat(incomeLimit * tableRow.amiPercent), Rat(100)))
      /\ RatEq(tableRow.floor, RatMul(tableRow.exactIncome, <<3, 4>>))
      /\ RatEq(RatMul(tableRow.exactRent, Rat(12)),
               RatMul(tableRow.exactIncome, <<30, 100>>))
      /\ RatEq(RatMul(tableRow.exactRent, Rat(12)),
               RatMul(tableRow.floor, <<40, 100>>))
      /\ (4 * tableRow.floor[1]) % tableRow.floor[2] = 0
      /\ tableRow.percentCanAfford =
            computeAffordabilityPct(HalfDollars(tableRow.exactIncome),
                                    incomeData.totalHouseholds,
                                    CountsOf(incomeData.brackets))
      /\ ((2 * tableRow.floor[1]) % tableRow.floor[2] = 0
            => tableRow.pctAboveFloor =
                 computeAffordabilityPct(HalfDollars(tableRow.floor),
                                         incomeData.totalHouseholds,
                                         CountsOf(incomeData.brackets)))
      /\ tableRow.percentFeasible = tableRow.pctAboveFloor - tableRow.percentCanAfford
      /\ tableRow.percentFeasible >= 0

\* C22 witness: a row whose floor is not a whole half dollar, with households
\* between the floor and the income.
C22_Witness ==
    /\ Rowed
    /\ tableRow.floor[2] = 4
    /\ tableRow.percentFeasible > 0
    /\ tableRow.percentCanAfford > 0

----------------------------------------------------------------------------
(* Claims about one call of loadMsaData (checked under SpecLookupFair)      *)

LookupReturned == lookPc = "returned"

\* whichever cache the loader in use keeps
LookupCacheUnchanged == UNCHANGED <<msaDataCache, msaCache>>

\* C23: a call of loadMsaData, in the route and in the ranker, always
\* returns, and reads the backing store at most once: a hit returns without
\* a read, a load returns after exactly one read, and a read that fails
\* returns null at once, with one read made and the cache as it was.
C23_LookupTerminatesOneLoad ==
    /\ [](reads <= 1)
    /\ [](LookupReturned /\ lookResult.how = "hit" => reads = 0)
    /\ [](LookupReturned /\ lookResult.how = "loaded" => reads = 1)
    /\ [](LookupReturned /\ lookResult.how = "absent"
            => reads = 1 /\ lookResult.data = Null)
    /\ [][lookPc = "read" /\ ~MsaFileExists(lookCode)
            => lookPc' = "returned" /\ LookupCacheUnchanged]_vars
    /\ (lookPc \in {"has", "read", "room", "set"} ~> LookupReturned)

\* a failed load has returned absent after its one read, the route's cache
\* being full
C23_Witness ==
    /\ LookupReturned
    /\ lookResult.how = "absent"
    /\ reads = 1
    /\ loader = "route"
    /\ Len(msaDataCache) = MSA_DATA_MAX

----------------------------------------------------------------------------
(* Claims about the ranker's independence of earlier calls (SpecRanker)     *)

\* the last call's arguments, run on a module that has served no call
FreshCall(call) ==
    computeMsaPercentile(<<>>, call.county, call.tractFips, call.incomeThreshold,
                         call.safmrSupplied, call.bedroomIndex)

SameAnswer(fresh) ==
    /\ rankResult = fresh.result
    /\ tractPcts = fresh.pcts
    /\ targetPct = fresh.target
    /\ tractThresholds = fresh.thresholds

\* C24: whatever calls were made before, and whether the region was found
\* in msaCache or read from its file, computeMsaPercentile returns what the
\* same arguments return on a module that has served no call: the same
\* result, from the same per-tract thresholds and percentages.
C24_RankerIndependentOfHistory == Called => SameAnswer(FreshCall(rankCall))

\* a target ranked from a region that an earlier call had cached, with
\* other regions cached besides
C24_Witness ==
    /\ rankLoad = "hit"
    /\ rankResult.outcome = "result"
    /\ Cardinality(DOMAIN msaCache) >= 3

\* C27: a target that is in its region's tract list is never answered with
\* null, whatever its percentage: a target whose percentage is 0 gets a
\* record, and its percentile is 0, no tract being strictly below 0.  Null
\* is returned exactly when no target was found.
C27_ZeroPercentTargetIsRanked ==
    Called =>
        /\ (TargetListed => targetPct # <<>> /\ rankResult.outcome = "result")
        /\ (targetPct = <<0>> => /\ rankResult.outcome = "result"
                                 /\ rankResult.percentile = 0
                                 /\ rankResult.msaTractCount = Len(CallRows))
        /\ (rankResult.outcome = "null" <=> targetPct = <<>>)

\* the target has households, none of them above the threshold, and other
\* tracts of its region are above 0
C27_Witness ==
    /\ Called
    /\ TargetListed
    /\ targetPct = <<0>>
    /\ rankResult.outcome = "result"
    /\ rankResult.percentile = 0
    /\ \E i \in 1..Len(CallRows) : CallRows[i].fips = CallTarget /\ CallRows[i].total > 0
    /\ \E i \in 1..Len(tractPcts) : tractPcts[i] > 0

----------------------------------------------------------------------------
(* Claims about the interpolators side by side (SpecTable, SpecRounding)    *)

\* C26 as stated: at one threshold and on one tract, the server's
\* calculateAffordability, the shared computeAffordabilityPct and the page's
\* interpolatePercentAbove return the same percentage, the top bracket's max
\* null on the page and the threshold above 200000 included.
C26_InterpolatorsAgree ==
    interpolated.ran =>
        /\ interpolated.server = interpolated.shared
        /\ interpolated.shared = interpolated.page

----------------------------------------------------------------------------
(* Claims about the lookup route's ranking call (SpecLookupRoute)           *)

\* the income needed for the metro-level two-bedroom rent, in half dollars
MetroThreshold == HalfDollars(lookupDefaultIncomeNeeded(Rat(metroFmr[3])))

\* the tract's ZIP has no SAFMR rents: no ZIP, or a ZIP without an entry
NoSafmr(fips) == zipMapping(fips) = 0 \/ zipMapping(fips) \notin DOMAIN safmrByZip

\* C25 as stated: in the lookup route's ranking call every tract whose ZIP
\* has no SAFMR data is evaluated at the income needed for the metro-level
\* two-bedroom rent, also when the searched address resolved to a ZIP-level
\* rent.
C25_FallbackIsMetroThreshold ==
    Called =>
        \A i \in 1..Len(tractThresholds) :
            NoSafmr(CallRows[i].fips) => tractThresholds[i] = MetroThreshold

----------------------------------------------------------------------------
(* Claims about the page's two settings (SpecPageUrl)                       *)

\* what the mount effect leaves in a setting whose default is given
FromUrl(default, text, lo, hi) ==
    IF urlQuery.address /\ parseInt(ParamText(text)) # <<>>
         /\ parseInt(ParamText(text)) \in { <<n>> : n \in lo..hi }
      THEN parseInt(ParamText(text))[1]
      ELSE default

\* C28: householdSize stays in 1..8 and bedrooms in 0..4, which are the
\* indexes recalculate reads incomeLimitsBySize (eight entries) and
\* fmrByBedroom (five entries) at; and the mount effect applies a value of
\* the URL only when it parses to a whole number in the range, leaving the
\* defaults 4 and 2 otherwise.
C28_SettingsInRange ==
    /\ [](/\ householdSize \in 1..8
          /\ bedrooms \in 0..4
          /\ householdSize \in DOMAIN incomeLimitsBySize(0)
          /\ \A fmr \in MetroFmrs : bedrooms + 1 \in DOMAIN fmr)
    /\ [][~initializedFromUrl /\ initializedFromUrl'
            => /\ householdSize' = FromUrl(4, urlQuery.household, 1, 8)
               /\ bedrooms' = FromUrl(2, urlQuery.bedrooms, 0, 4)]_vars

\* the page was opened on ?address=..&household=8&bedrooms=5: the household
\* size is restored, the bedroom count is not, and the result is shown
C28_Witness ==
    /\ initializedFromUrl
    /\ urlQuery.household = <<"8">>
    /\ urlQuery.bedrooms = <<"5">>
    /\ householdSize = 8
    /\ bedrooms = 2
    /\ rawData # NoData

----------------------------------------------------------------------------
(* Claims about the page's lookups (SpecPage, SpecPageFair)                 *)

InFlight(id) == \E l \in lookups : l.id = id

\* C29 as stated: every lookup started by handleSearch or handleMapClick
\* ends, on an OK response, on an HTTP error and on a throw alike, with
\* isLoading set to false; and isLoading is true whenever a lookup is in
\* flight, a search and a map click overlapping included.
C29_LoadingCoversLookups ==
    /\ \A id \in 1..MaxLookups : InFlight(id) ~> ~InFlight(id)
    /\ [][lookups' # lookups /\ lookups' \subseteq lookups => isLoading' = FALSE]_vars
    /\ [](lookups # {} => isLoading)

\* every request has had its response
Settled == lookups = {} /\ chorFetches = {}

\* C30 as stated: once every lookup and choropleth request has completed,
\* rawData is the response of the lookup issued last, and choroplethData is
\* the region data of rawData's county.
C30_LatestLookupShown ==
    (Settled /\ issued > 0) =>
        /\ rawData.id \in {0, issued}
        /\ choroplethData.id # 0 => choroplethData.county = rawData.county

====
